---------------------------- MODULE Spec2Model ----------------------------
(***************************************************************************)
(* A model of the ray tracer of K0enM/ray_tracer_challenge.                *)
(*                                                                         *)
(* f64 values are fixed-point integers: the real v is the integer          *)
(* round(v * SCALE).  Three integers outside the working range stand for   *)
(* the non-finite f64 values NaN, +inf and -inf.  All arithmetic on f64    *)
(* goes through the F* operators below, which round to the nearest grid    *)
(* point and propagate the non-finite values as IEEE 754 does.             *)
(***************************************************************************)
EXTENDS Integers, Sequences, FiniteSets, TLC

\* ------------------------------------------------------------------------
\* f64 arithmetic
\* ------------------------------------------------------------------------

\* grid resolution of the fixed-point representation of f64
SCALE == 1000

\* f64::NAN, f64::INFINITY, f64::NEG_INFINITY
NaN == 2147483647
Inf == 2147483646
NegInf == -2147483646

IsNaN(a) == a = NaN
IsInf(a) == a = Inf \/ a = NegInf
IsFinite(a) == ~IsNaN(a) /\ ~IsInf(a)

\* the f64 for the integer n (`n as f64`, and integer literals such as 2.0)
F(n) == n * SCALE

\* 0.5
HALF == SCALE \div 2

\* util::EPSILON (0.00001) on the grid: the smallest positive grid value
EPSILON == 1

Sign(a) == IF a = 0 \/ IsNaN(a) THEN 0 ELSE IF a > 0 THEN 1 ELSE -1

\* n / d rounded to the nearest integer, d # 0
RoundDiv(n, d) ==
    IF d < 0 THEN ((-n) + ((-d) \div 2)) \div (-d)
    ELSE (n + (d \div 2)) \div d

FNeg(a) ==
    IF IsNaN(a) THEN NaN
    ELSE IF a = Inf THEN NegInf
    ELSE IF a = NegInf THEN Inf
    ELSE -a

FAdd(a, b) ==
    IF IsNaN(a) \/ IsNaN(b) THEN NaN
    ELSE IF IsInf(a) THEN (IF IsInf(b) /\ b # a THEN NaN ELSE a)
    ELSE IF IsInf(b) THEN b
    ELSE a + b

FSub(a, b) == FAdd(a, FNeg(b))

FMul(a, b) ==
    IF IsNaN(a) \/ IsNaN(b) THEN NaN
    ELSE IF IsInf(a) \/ IsInf(b)
         THEN (IF a = 0 \/ b = 0 THEN NaN
               ELSE IF Sign(a) = Sign(b) THEN Inf ELSE NegInf)
    ELSE RoundDiv(a * b, SCALE)

FDiv(a, b) ==
    IF IsNaN(a) \/ IsNaN(b) THEN NaN
    ELSE IF IsInf(a)
         THEN (IF IsInf(b) THEN NaN
               ELSE IF (a = Inf) = (b >= 0) THEN Inf ELSE NegInf)
    ELSE IF IsInf(b) THEN 0
    ELSE IF b = 0
         THEN (IF a = 0 THEN NaN ELSE IF a > 0 THEN Inf ELSE NegInf)
    ELSE RoundDiv(a * SCALE, b)

\* a < b, a <= b, a > b, a >= b on f64: false whenever an operand is NaN
FLt(a, b) == ~IsNaN(a) /\ ~IsNaN(b) /\ a < b
FLe(a, b) == ~IsNaN(a) /\ ~IsNaN(b) /\ a <= b
FGt(a, b) == FLt(b, a)
FGe(a, b) == FLe(b, a)

FAbs(a) == IF IsNaN(a) THEN NaN ELSE IF a < 0 THEN FNeg(a) ELSE a

RECURSIVE ISqrtIter(_, _, _)
\* the largest r in lo..hi with r * r <= n
ISqrtIter(n, lo, hi) ==
    IF lo >= hi THEN lo
    ELSE LET mid == (lo + hi + 1) \div 2
         IN  IF mid * mid <= n THEN ISqrtIter(n, mid, hi)
             ELSE ISqrtIter(n, lo, mid - 1)

\* integer square root, rounded to the nearest integer
ISqrt(n) ==
    LET r == ISqrtIter(n, 0, 46340)
    IN  IF n - r * r > r THEN r + 1 ELSE r

\* f64::sqrt
FSqrt(a) ==
    IF IsNaN(a) THEN NaN
    ELSE IF a = Inf THEN Inf
    ELSE IF a < 0 THEN NaN
    ELSE ISqrt(a * SCALE)

RECURSIVE FPowi(_, _)
\* f64::powi / f64::powf with a non-negative whole exponent n
FPowi(a, n) ==
    IF n = 0 THEN F(1)
    ELSE IF n % 2 = 0 THEN LET h == FPowi(a, n \div 2) IN FMul(h, h)
    ELSE FMul(a, FPowi(a, n - 1))

\* util.rs: impl FuzzyEq<f64> for f64
fuzzy_eq(a, b) == FLt(FAbs(FSub(a, b)), EPSILON)
fuzzy_ne(a, b) == ~fuzzy_eq(a, b)

\* ------------------------------------------------------------------------
\* results of operations that may panic: Panic, or Ok(v) for the value v
\* ------------------------------------------------------------------------

Panic == [ok |-> FALSE]
Ok(v) == [ok |-> TRUE, val |-> v]
\* r.val handed on to the code behind it, unless r is a panic
AndThen(r, Body(_)) == IF r.ok THEN Body(r.val) ELSE Panic
\* let v = ...; followed by the code that uses it
Let(v, Body(_)) == Body(v)

\* ------------------------------------------------------------------------
\* tuple.rs
\* ------------------------------------------------------------------------

\* Tuple::new
Tuple(x, y, z, w) == [x |-> x, y |-> y, z |-> z, w |-> w]

\* Tuple::point, Tuple::vector
point(x, y, z) == Tuple(x, y, z, F(1))
vector(x, y, z) == Tuple(x, y, z, F(0))

is_point(t) == fuzzy_eq(t.w, F(1))
is_vector(t) == fuzzy_eq(t.w, F(0))

\* impl Add / Sub / Neg / Mul<f64> for Tuple
TupleAdd(a, b) == Tuple(FAdd(a.x, b.x), FAdd(a.y, b.y), FAdd(a.z, b.z), FAdd(a.w, b.w))
TupleSub(a, b) == Tuple(FSub(a.x, b.x), FSub(a.y, b.y), FSub(a.z, b.z), FSub(a.w, b.w))
TupleNeg(a) == TupleSub(vector(F(0), F(0), F(0)), a)
TupleMul(a, k) == Tuple(FMul(a.x, k), FMul(a.y, k), FMul(a.z, k), FMul(a.w, k))

\* Tuple::magnitude: sqrt(x^2 + y^2 + z^2), w left out
magnitude(t) == FSqrt(FAdd(FAdd(FMul(t.x, t.x), FMul(t.y, t.y)), FMul(t.z, t.z)))

\* Tuple::normalize: all four components divided by the magnitude
normalize(t) ==
    Let(magnitude(t), LAMBDA mag :
    Tuple(FDiv(t.x, mag), FDiv(t.y, mag), FDiv(t.z, mag), FDiv(t.w, mag)))

\* Tuple::dot: over all four components
dot(a, b) ==
    FAdd(FAdd(FAdd(FMul(a.x, b.x), FMul(a.y, b.y)), FMul(a.z, b.z)), FMul(a.w, b.w))

\* Tuple::cross
cross(a, b) ==
    vector(FSub(FMul(a.y, b.z), FMul(a.z, b.y)),
           FSub(FMul(a.z, b.x), FMul(a.x, b.z)),
           FSub(FMul(a.x, b.y), FMul(a.y, b.x)))

\* Tuple::reflect(normal) = v - normal * 2 * (v . normal)
reflect(v, normal) == TupleSub(v, TupleMul(TupleMul(normal, F(2)), dot(v, normal)))

\* ------------------------------------------------------------------------
\* matrix.rs: a Matrix<D> is the tuple of its D rows, each the tuple of its D
\* entries; At(m, r, c) is m[r][c] of the code, rows and columns counted from 0
\* ------------------------------------------------------------------------

At(m, r, c) == m[r + 1][c + 1]

Dim(m) == Len(m)

\* the D x D matrix whose entry [r][c] is e(r, c)
MatrixOf(D, e(_, _)) ==
    IF D = 1 THEN << <<e(0, 0)>> >>
    ELSE IF D = 2 THEN << <<e(0, 0), e(0, 1)>>, <<e(1, 0), e(1, 1)>> >>
    ELSE IF D = 3 THEN << <<e(0, 0), e(0, 1), e(0, 2)>>,
                          <<e(1, 0), e(1, 1), e(1, 2)>>,
                          <<e(2, 0), e(2, 1), e(2, 2)>> >>
    ELSE << <<e(0, 0), e(0, 1), e(0, 2), e(0, 3)>>,
            <<e(1, 0), e(1, 1), e(1, 2), e(1, 3)>>,
            <<e(2, 0), e(2, 1), e(2, 2), e(2, 3)>>,
            <<e(3, 0), e(3, 1), e(3, 2), e(3, 3)>> >>

\* Matrix::identity
identity(D) == MatrixOf(D, LAMBDA r, c : IF r = c THEN F(1) ELSE F(0))

\* Matrix::tranpose
tranpose(m) == MatrixOf(Dim(m), LAMBDA r, c : At(m, c, r))

\* Matrix::submatrix: row and column removed
submatrix(m, row, column) ==
    MatrixOf(Dim(m) - 1,
             LAMBDA tr, tc : At(m, IF tr < row THEN tr ELSE tr + 1,
                                   IF tc < column THEN tc ELSE tc + 1))

RECURSIVE determinant(_)
\* Matrix<3>::minor, Matrix<4>::minor
minor(m, row, column) == determinant(submatrix(m, row, column))

\* cofactor without the change of sign for odd row + column
cofactor_unsigned(m, row, column) == minor(m, row, column)

\* Matrix<3>::cofactor, Matrix<4>::cofactor
cofactor(m, row, column) ==
    IF (row + column) % 2 = 0 THEN minor(m, row, column)
    ELSE FNeg(minor(m, row, column))

RECURSIVE DetSum(_, _)
\* the loop of determinant(): the sum over col < n of cofactor(0, col) * self[0][col]
DetSum(m, n) ==
    IF n = 0 THEN F(0)
    ELSE FAdd(DetSum(m, n - 1), FMul(cofactor(m, 0, n - 1), At(m, 0, n - 1)))

\* Matrix<2>::determinant, Matrix<3>::determinant, Matrix<4>::determinant
determinant(m) ==
    IF Dim(m) = 2
    THEN FSub(FMul(At(m, 0, 0), At(m, 1, 1)), FMul(At(m, 0, 1), At(m, 1, 0)))
    ELSE DetSum(m, Dim(m))

\* Matrix::is_invertible
is_invertible(m) == fuzzy_ne(determinant(m), F(0))

\* inverse without the invertibility check: it divides by whatever the
\* determinant is
inverse_unchecked(m) ==
    Let(determinant(m), LAMBDA det :
    Ok(MatrixOf(Dim(m), LAMBDA column, row : FDiv(cofactor(m, row, column), det))))

\* Matrix::inverse: panics when the matrix is not invertible; entry
\* [column][row] of the result is cofactor(row, column) / determinant
inverse(m) ==
    Let(determinant(m), LAMBDA det :
    IF fuzzy_eq(det, F(0)) THEN Panic
    ELSE Ok(MatrixOf(Dim(m), LAMBDA column, row : FDiv(cofactor(m, row, column), det))))

\* impl Mul<Self> for Matrix<4>
MatrixMul(a, b) ==
    MatrixOf(4, LAMBDA row, column :
        FAdd(FAdd(FAdd(FMul(At(a, row, 0), At(b, 0, column)),
                       FMul(At(a, row, 1), At(b, 1, column))),
                  FMul(At(a, row, 2), At(b, 2, column))),
             FMul(At(a, row, 3), At(b, 3, column))))

\* impl Mul<Tuple> for Matrix<4>
MatrixMulTuple(m, t) ==
    LET rowdot(row) ==
            FAdd(FAdd(FAdd(FMul(At(m, row, 0), t.x), FMul(At(m, row, 1), t.y)),
                      FMul(At(m, row, 2), t.z)),
                 FMul(At(m, row, 3), t.w))
    IN  Tuple(rowdot(0), rowdot(1), rowdot(2), rowdot(3))

\* Matrix::translation, Matrix::scaling
translation(x, y, z) ==
    << <<F(1), F(0), F(0), x>>,
       <<F(0), F(1), F(0), y>>,
       <<F(0), F(0), F(1), z>>,
       <<F(0), F(0), F(0), F(1)>> >>

scaling(x, y, z) ==
    << <<x, F(0), F(0), F(0)>>,
       <<F(0), y, F(0), F(0)>>,
       <<F(0), F(0), z, F(0)>>,
       <<F(0), F(0), F(0), F(1)>> >>

\* r.sin() and r.cos() for the angles of the model
Sin(r) == IF r = "PI/2" THEN F(1) ELSE F(0)
Cos(r) == IF r = "PI/2" THEN F(0) ELSE IF r = "PI" THEN F(-1) ELSE F(1)

\* Matrix::rotation_x, Matrix::rotation_z
rotation_x(r) ==
    << <<F(1), F(0), F(0), F(0)>>,
       <<F(0), Cos(r), FNeg(Sin(r)), F(0)>>,
       <<F(0), Sin(r), Cos(r), F(0)>>,
       <<F(0), F(0), F(0), F(1)>> >>
rotation_z(r) ==
    << <<Cos(r), FNeg(Sin(r)), F(0), F(0)>>,
       <<Sin(r), Cos(r), F(0), F(0)>>,
       <<F(0), F(0), F(1), F(0)>>,
       <<F(0), F(0), F(0), F(1)>> >>

\* Matrix::shearing
shearing(x_y, x_z, y_x, y_z, z_x, z_y) ==
    << <<F(1), x_y, x_z, F(0)>>,
       <<y_x, F(1), y_z, F(0)>>,
       <<z_x, z_y, F(1), F(0)>>,
       <<F(0), F(0), F(0), F(1)>> >>

\* impl FuzzyEq<Self> for Matrix<D>
MatrixFuzzyEq(a, b) ==
    \A row \in 0..(Dim(a) - 1) : \A column \in 0..(Dim(a) - 1) :
        ~fuzzy_ne(At(a, row, column), At(b, row, column))

\* Matrix::view_transform
view_transform(from, to, up) ==
    Let(normalize(TupleSub(to, from)), LAMBDA forward :
    Let(normalize(up), LAMBDA up_normalized :
    Let(cross(forward, up_normalized), LAMBDA left :
    Let(cross(left, forward), LAMBDA true_up :
    Let(<< <<left.x, left.y, left.z, F(0)>>,
           <<true_up.x, true_up.y, true_up.z, F(0)>>,
           <<FNeg(forward.x), FNeg(forward.y), FNeg(forward.z), F(0)>>,
           <<F(0), F(0), F(0), F(1)>> >>, LAMBDA orientation :
    MatrixMul(orientation, translation(FNeg(from.x), FNeg(from.y), FNeg(from.z))))))))

\* ------------------------------------------------------------------------
\* ray.rs
\* ------------------------------------------------------------------------

\* Ray::new that checks the origin only
RayNewAnyDirection(origin, direction) ==
    IF ~is_point(origin) THEN Panic
    ELSE Ok([origin |-> origin, direction |-> direction])

\* Ray::new: panics unless origin is a point and direction is a vector
RayNew(origin, direction) ==
    IF ~is_point(origin) \/ ~is_vector(direction) THEN Panic
    ELSE Ok([origin |-> origin, direction |-> direction])

\* Ray::position
position(ray, t) == TupleAdd(ray.origin, TupleMul(ray.direction, t))

\* Ray::transform
RayTransform(ray, m) ==
    [origin |-> MatrixMulTuple(m, ray.origin), direction |-> MatrixMulTuple(m, ray.direction)]

\* ------------------------------------------------------------------------
\* color.rs, light.rs, material.rs
\* ------------------------------------------------------------------------

\* Color::new, Color::black, Color::white
Color(r, g, b) == [red |-> r, green |-> g, blue |-> b]
black == Color(F(0), F(0), F(0))
white == Color(F(1), F(1), F(1))

\* impl Add<Self>, Mul<f64>, Mul<Self> for Color
ColorAdd(a, b) == Color(FAdd(a.red, b.red), FAdd(a.green, b.green), FAdd(a.blue, b.blue))
ColorScale(a, k) == Color(FMul(a.red, k), FMul(a.green, k), FMul(a.blue, k))
ColorMul(a, b) == Color(FMul(a.red, b.red), FMul(a.green, b.green), FMul(a.blue, b.blue))

\* Light::point
LightPoint(pos, intensity) == [position |-> pos, intensity |-> intensity]

\* Material::new; shininess is a whole number
Material(color, ambient, diffuse, specular, shininess) ==
    [color |-> color, ambient |-> ambient, diffuse |-> diffuse,
     specular |-> specular, shininess |-> shininess]

\* lighting that adds diffuse and specular whether the point is in shadow or not
lighting_without_shadow(m, pt, light, eyev, normalv, in_shadow) ==
    Let(ColorMul(m.color, light.intensity), LAMBDA effective_color :
    Let(normalize(TupleSub(light.position, pt)), LAMBDA lightv :
    Let(ColorScale(effective_color, m.ambient), LAMBDA ambient :
    Let(dot(lightv, normalv), LAMBDA light_dot_normal :
    Let(dot(TupleNeg(reflect(lightv, normalv)), eyev), LAMBDA reflect_dot_eye :
    Let(IF FLt(light_dot_normal, F(0)) THEN black
        ELSE ColorScale(ColorScale(effective_color, m.diffuse), light_dot_normal),
        LAMBDA diffuse :
    Let(IF FLt(light_dot_normal, F(0)) THEN black
        ELSE IF FLe(reflect_dot_eye, F(0)) THEN black
        ELSE ColorScale(ColorScale(light.intensity, m.specular),
                        FPowi(reflect_dot_eye, m.shininess)),
        LAMBDA specular :
    ColorAdd(ColorAdd(ambient, diffuse), specular))))))))

\* Material::lighting
lighting(m, pt, light, eyev, normalv, in_shadow) ==
    Let(ColorMul(m.color, light.intensity), LAMBDA effective_color :
    Let(normalize(TupleSub(light.position, pt)), LAMBDA lightv :
    Let(ColorScale(effective_color, m.ambient), LAMBDA ambient :
    Let(dot(lightv, normalv), LAMBDA light_dot_normal :
    Let(TupleNeg(reflect(lightv, normalv)), LAMBDA reflectv :
    Let(dot(reflectv, eyev), LAMBDA reflect_dot_eye :
    Let(IF FLt(light_dot_normal, F(0)) THEN black
        ELSE ColorScale(ColorScale(effective_color, m.diffuse), light_dot_normal),
        LAMBDA diffuse :
    Let(IF FLt(light_dot_normal, F(0)) THEN black
        ELSE IF FLe(reflect_dot_eye, F(0)) THEN black
        ELSE ColorScale(ColorScale(light.intensity, m.specular),
                        FPowi(reflect_dot_eye, m.shininess)),
        LAMBDA specular :
    IF in_shadow THEN ambient
    ELSE ColorAdd(ColorAdd(ambient, diffuse), specular)))))))))

\* ------------------------------------------------------------------------
\* intersection.rs
\* ------------------------------------------------------------------------

\* Intersection::new
Intersection(t, object) == [t |-> t, object |-> object]

\* f64::partial_cmp: "None" when an operand is NaN
partial_cmp(a, b) ==
    IF IsNaN(a) \/ IsNaN(b) THEN "None"
    ELSE IF a < b THEN "Less"
    ELSE IF a > b THEN "Greater"
    ELSE "Equal"

RECURSIVE InsertTailDescending(_, _)
\* InsertTail with the comparison turned around, as b.t.partial_cmp(&a.t) sorts
InsertTailDescending(sorted, x) ==
    IF sorted = <<>> THEN <<x>>
    ELSE IF partial_cmp(sorted[Len(sorted)].t, x.t) = "Less"
         THEN Append(InsertTailDescending(SubSeq(sorted, 1, Len(sorted) - 1), x),
                     sorted[Len(sorted)])
         ELSE Append(sorted, x)

RECURSIVE InsertTail(_, _)
\* one step of the stable sort: x goes behind every entry that is not greater
InsertTail(sorted, x) ==
    IF sorted = <<>> THEN <<x>>
    ELSE IF partial_cmp(sorted[Len(sorted)].t, x.t) = "Greater"
         THEN Append(InsertTail(SubSeq(sorted, 1, Len(sorted) - 1), x), sorted[Len(sorted)])
         ELSE Append(sorted, x)

RECURSIVE SortByT(_)
\* slice::sort_by(|a, b| a.t.partial_cmp(&b.t).unwrap()) on comparable entries
SortByT(xs) ==
    IF xs = <<>> THEN <<>>
    ELSE InsertTail(SortByT(SubSeq(xs, 1, Len(xs) - 1)), xs[Len(xs)])

\* Intersections::new: the unwrap panics as soon as a NaN is compared, which
\* the sort does for every entry of a list of two or more
IntersectionsNew(xs) ==
    IF Len(xs) >= 2 /\ \E i \in 1..Len(xs) : IsNaN(xs[i].t) THEN Panic
    ELSE Ok([intersections |-> SortByT(xs)])

RECURSIVE HitFromNonNegative(_, _)
\* HitFrom with i.t >= 0.0 in place of i.t > 0.0
HitFromNonNegative(is, i) ==
    IF i > Len(is) THEN [some |-> FALSE]
    ELSE IF FGe(is[i].t, F(0)) THEN [some |-> TRUE, val |-> is[i]]
    ELSE HitFromNonNegative(is, i + 1)

RECURSIVE HitFrom(_, _)
\* the loop of hit(): the first entry at or after index i with t > 0.0
HitFrom(is, i) ==
    IF i > Len(is) THEN [some |-> FALSE]
    ELSE IF FGt(is[i].t, F(0)) THEN [some |-> TRUE, val |-> is[i]]
    ELSE HitFrom(is, i + 1)

\* Intersections::hit
hit(xs) == HitFrom(xs.intersections, 1)

\* ------------------------------------------------------------------------
\* sphere.rs, plane.rs, shape.rs
\* ------------------------------------------------------------------------

\* Shape::Sphere(Sphere { transform, material }), Shape::Plane(Plane { .. })
Sphere(transform, material) == [kind |-> "Sphere", transform |-> transform, material |-> material]
Plane(transform, material) == [kind |-> "Plane", transform |-> transform, material |-> material]

\* Sphere::intersect that records only the roots in front of the ray
SphereIntersectInFront(s, ray) ==
    AndThen(inverse(s.transform), LAMBDA inv :
    Let(RayTransform(ray, inv), LAMBDA object_space_ray :
    Let(TupleSub(object_space_ray.origin, point(F(0), F(0), F(0))), LAMBDA sphere_to_ray :
    Let(dot(object_space_ray.direction, object_space_ray.direction), LAMBDA a :
    Let(FMul(F(2), dot(object_space_ray.direction, sphere_to_ray)), LAMBDA b :
    Let(FSub(dot(sphere_to_ray, sphere_to_ray), F(1)), LAMBDA c :
    Let(FSub(FMul(b, b), FMul(FMul(F(4), a), c)), LAMBDA discriminant :
    IF FLt(discriminant, F(0)) THEN IntersectionsNew(<<>>)
    ELSE IntersectionsNew(SelectSeq(
            <<Intersection(FDiv(FSub(FNeg(b), FSqrt(discriminant)), FMul(F(2), a)), s),
              Intersection(FDiv(FAdd(FNeg(b), FSqrt(discriminant)), FMul(F(2), a)), s)>>,
            LAMBDA i : FGe(i.t, F(0)))))))))))

\* Sphere::intersect
SphereIntersect(s, ray) ==
    AndThen(inverse(s.transform), LAMBDA inv :
    Let(RayTransform(ray, inv), LAMBDA object_space_ray :
    Let(TupleSub(object_space_ray.origin, point(F(0), F(0), F(0))), LAMBDA sphere_to_ray :
    Let(dot(object_space_ray.direction, object_space_ray.direction), LAMBDA a :
    Let(FMul(F(2), dot(object_space_ray.direction, sphere_to_ray)), LAMBDA b :
    Let(FSub(dot(sphere_to_ray, sphere_to_ray), F(1)), LAMBDA c :
    Let(FSub(FMul(b, b), FMul(FMul(F(4), a), c)), LAMBDA discriminant :
    IF FLt(discriminant, F(0)) THEN IntersectionsNew(<<>>)
    ELSE IntersectionsNew(
            <<Intersection(FDiv(FSub(FNeg(b), FSqrt(discriminant)), FMul(F(2), a)), s),
              Intersection(FDiv(FAdd(FNeg(b), FSqrt(discriminant)), FMul(F(2), a)), s)>>))))))))

\* impl ShapeFuncs for Plane: intersect, on the ray as it is given
PlaneIntersect(p, ray) ==
    IF FLt(FAbs(ray.direction.y), EPSILON) THEN IntersectionsNew(<<>>)
    ELSE IntersectionsNew(<<Intersection(FDiv(FNeg(ray.origin.y), ray.direction.y), p)>>)

\* impl ShapeFuncs for Shape: intersect
ShapeIntersect(shape, ray) ==
    IF shape.kind = "Sphere" THEN SphereIntersect(shape, ray)
    ELSE PlaneIntersect(shape, ray)

\* Sphere::normal_at
SphereNormalAt(s, world_point) ==
    AndThen(inverse(s.transform), LAMBDA inv :
    Let(MatrixMulTuple(inv, world_point), LAMBDA object_point :
    Let(TupleSub(object_point, point(F(0), F(0), F(0))), LAMBDA object_normal :
    Let(MatrixMulTuple(tranpose(inv), object_normal), LAMBDA world_normal :
    Ok(normalize([world_normal EXCEPT !.w = F(0)]))))))

\* impl ShapeFuncs for Plane: normal_at
PlaneNormalAt(p, object_point) == Ok(vector(F(0), F(1), F(0)))

\* impl ShapeFuncs for Shape: normal_at
normal_at(shape, pt) ==
    IF shape.kind = "Sphere" THEN SphereNormalAt(shape, pt)
    ELSE PlaneNormalAt(shape, pt)

\* as_computed that takes the normal of the shape as it is
as_computed_unflipped(i, ray) ==
    Let(position(ray, i.t), LAMBDA pt :
    Let(TupleNeg(ray.direction), LAMBDA eyev :
    AndThen(normal_at(i.object, pt), LAMBDA n :
    Ok([intersection |-> i, point |-> pt,
        over_point |-> TupleAdd(pt, TupleMul(n, EPSILON)),
        eyev |-> eyev, normalv |-> n, inside |-> FALSE]))))

\* Intersection::as_computed
as_computed(i, ray) ==
    Let(position(ray, i.t), LAMBDA pt :
    Let(TupleNeg(ray.direction), LAMBDA eyev :
    AndThen(normal_at(i.object, pt), LAMBDA n :
    Let(FLt(dot(n, eyev), F(0)), LAMBDA inside :
    Let(IF inside THEN TupleNeg(n) ELSE n, LAMBDA normalv :
    Ok([intersection |-> i, point |-> pt,
        over_point |-> TupleAdd(pt, TupleMul(normalv, EPSILON)),
        eyev |-> eyev, normalv |-> normalv, inside |-> inside]))))))

\* ------------------------------------------------------------------------
\* world.rs
\* ------------------------------------------------------------------------

\* World::new
World(objects, light_source) == [objects |-> objects, light_source |-> light_source]

\* Collect that is content with the intersections of the first object that
\* has any, as find_map in place of flat_map
CollectFirstFound(first, rest) ==
    IF ~first.ok \/ ~rest.ok THEN Panic
    ELSE IF first.val.intersections # <<>> THEN Ok(first.val.intersections)
    ELSE Ok(rest.val)

\* collect() of one object's intersections in front of those of the objects
\* behind it; a panic of either is a panic of the whole
Collect(first, rest) ==
    IF ~first.ok \/ ~rest.ok THEN Panic
    ELSE Ok(first.val.intersections \o rest.val)

RECURSIVE FlatMapIntersectFromLast(_, _, _)
\* FlatMapIntersect that visits the objects from the last to the first
FlatMapIntersectFromLast(objects, ray, k) ==
    IF k > Len(objects) THEN Ok(<<>>)
    ELSE Collect(ShapeIntersect(objects[Len(objects) + 1 - k], ray),
                 FlatMapIntersectFromLast(objects, ray, k + 1))

RECURSIVE FlatMapIntersect(_, _, _)
\* objects.iter().flat_map(|o| o.intersect(ray)).collect(), from object k on
FlatMapIntersect(objects, ray, k) ==
    IF k > Len(objects) THEN Ok(<<>>)
    ELSE Collect(ShapeIntersect(objects[k], ray), FlatMapIntersect(objects, ray, k + 1))

\* World::intersect
WorldIntersect(w, ray) ==
    AndThen(FlatMapIntersect(w.objects, ray, 1), LAMBDA xs : IntersectionsNew(xs))

\* is_shadowed that takes any hit for a shadow, however far away
is_shadowed_by_any_hit(w, pt) ==
    Let(TupleSub(w.light_source.position, pt), LAMBDA v :
    Let(normalize(v), LAMBDA direction :
    AndThen(RayNew(pt, direction), LAMBDA ray :
    AndThen(WorldIntersect(w, ray), LAMBDA xs :
    Ok(hit(xs).some)))))

\* World::is_shadowed
is_shadowed(w, pt) ==
    Let(TupleSub(w.light_source.position, pt), LAMBDA v :
    Let(magnitude(v), LAMBDA distance :
    Let(normalize(v), LAMBDA direction :
    AndThen(RayNew(pt, direction), LAMBDA ray :
    AndThen(WorldIntersect(w, ray), LAMBDA xs :
    Let(hit(xs), LAMBDA h :
    Ok(IF h.some THEN FLt(h.val.t, distance) ELSE FALSE)))))))

\* World::shade_hit
shade_hit(w, comp) ==
    AndThen(is_shadowed(w, comp.over_point), LAMBDA in_shadow :
    Ok(lighting(comp.intersection.object.material, comp.point, w.light_source,
                comp.eyev, comp.normalv, in_shadow)))

\* color_at that shades the entry with the smallest t, in front or behind
color_at_smallest_t(w, ray) ==
    AndThen(WorldIntersect(w, ray), LAMBDA xs :
    IF xs.intersections = <<>> THEN Ok(black)
    ELSE AndThen(as_computed(xs.intersections[1], ray), LAMBDA comp : shade_hit(w, comp)))

\* World::color_at
color_at(w, ray) ==
    AndThen(WorldIntersect(w, ray), LAMBDA xs :
    Let(hit(xs), LAMBDA h :
    IF ~h.some THEN Ok(black)
    ELSE AndThen(as_computed(h.val, ray), LAMBDA comp : shade_hit(w, comp))))

\* ------------------------------------------------------------------------
\* canvas.rs
\* ------------------------------------------------------------------------

\* Canvas::new: width * height black pixels, the Vec indexed from 0
CanvasNew(width, height) ==
    [width |-> width, height |-> height,
     pixels |-> [i \in 0..(width * height - 1) |-> black]]

\* get_pixel_index with the pixels laid out column by column
get_pixel_index_column_major(canvas, x, y) == x * canvas.height + y

\* Canvas::get_pixel_index
get_pixel_index(canvas, x, y) == y * canvas.width + x

\* Canvas::write_pixel: the Vec index panics out of bounds
write_pixel(canvas, x, y, c) ==
    LET index == get_pixel_index(canvas, x, y)
    IN  IF index \notin DOMAIN canvas.pixels THEN Panic
        ELSE Ok([canvas EXCEPT !.pixels[index] = c])

\* Canvas::pixel_at
pixel_at(canvas, x, y) ==
    LET index == get_pixel_index(canvas, x, y)
    IN  IF index \notin DOMAIN canvas.pixels THEN Panic
        ELSE Ok(canvas.pixels[index])

\* ------------------------------------------------------------------------
\* camera.rs
\* ------------------------------------------------------------------------

\* (fov / 2.0).tan() for the fields of view of the model
TanHalf(fov) == IF fov = "PI/2" THEN F(1) ELSE F(0)

\* Camera::new
CameraNew(hsize, vsize, fov) ==
    Let(TanHalf(fov), LAMBDA half_view :
    Let(FDiv(F(hsize), F(vsize)), LAMBDA aspect :
    Let(IF FGe(aspect, F(1)) THEN half_view ELSE FMul(half_view, aspect), LAMBDA half_width :
    Let(IF FGe(aspect, F(1)) THEN FDiv(half_view, aspect) ELSE half_view, LAMBDA half_height :
    [hsize |-> hsize, vsize |-> vsize, fov |-> fov, transform |-> identity(4),
     half_width |-> half_width, half_height |-> half_height,
     pixel_size |-> FDiv(FMul(half_width, F(2)), F(hsize))]))))

\* Camera::ray_for_pixel
ray_for_pixel(cam, x, y) ==
    Let(FMul(FAdd(F(x), HALF), cam.pixel_size), LAMBDA xoffset :
    Let(FMul(FAdd(F(y), HALF), cam.pixel_size), LAMBDA yoffset :
    Let(FSub(cam.half_width, xoffset), LAMBDA world_x :
    Let(FSub(cam.half_height, yoffset), LAMBDA world_y :
    AndThen(inverse(cam.transform), LAMBDA inverse_view_transform :
    Let(MatrixMulTuple(inverse_view_transform, point(world_x, world_y, F(-1))),
        LAMBDA wall_point :
    Let(MatrixMulTuple(inverse_view_transform, point(F(0), F(0), F(0))), LAMBDA origin :
    Let(normalize(TupleSub(wall_point, origin)), LAMBDA direction :
    RayNew(origin, direction)))))))))

\* ------------------------------------------------------------------------
\* usize arithmetic: self.hsize - 1, self.vsize - 1 in Camera::render
\* ------------------------------------------------------------------------

\* width of usize in the model; the wrapped bound is far above any canvas size
USIZE_BITS == 16

\* a - b on usize: with overflow checks (debug profile) an underflow panics,
\* without them (release profile) it wraps around
usize_sub(a, b, checks) ==
    IF a >= b THEN Ok(a - b)
    ELSE IF checks THEN Panic
    ELSE Ok(a - b + 2 ^ USIZE_BITS)

\* ------------------------------------------------------------------------
\* bounds and inputs of the model
\* ------------------------------------------------------------------------

\* the cameras are hsize x vsize for hsize in 0..MaxH and vsize in 0..MaxV
MaxH == 3
MaxV == 2
\* the rayon pool has 1..MaxThreads threads
MaxThreads == 2
\* the caller renders at most MaxRenders times
MaxRenders == 2

\* the Vec given to Intersections::new has at most MaxLen entries
MaxLen == 3

\* Material::default, and the material of World::default
DefaultMaterial == Material(white, 100, 900, 900, 200)
WorldMaterial == Material(Color(800, 1000, 600), 100, 700, 200, 200)

\* Light::default
DefaultLight == LightPoint(point(F(-10), F(10), F(-10)), white)

\* World::default
DefaultWorld ==
    World(<< Sphere(identity(4), WorldMaterial),
             Sphere(scaling(HALF, HALF, HALF), DefaultMaterial) >>, DefaultLight)

\* a floor with a sphere resting on it
PlaneWorld ==
    World(<< Plane(identity(4), DefaultMaterial),
             Sphere(translation(F(0), F(1), F(0)), WorldMaterial) >>, DefaultLight)

\* a world holding a sphere whose transform has no inverse
SingularWorld ==
    World(<< Sphere(scaling(F(0), F(1), F(1)), DefaultMaterial) >>, DefaultLight)

Worlds == {DefaultWorld, PlaneWorld, SingularWorld}

\* the camera looking straight down from (0, 4, 0)
ViewDown == view_transform(point(F(0), F(4), F(0)), point(F(0), F(0), F(0)),
                           vector(F(0), F(0), F(1)))

\* the arguments given to Camera::set_transform
Transforms == {identity(4), ViewDown, scaling(F(1), F(0), F(1))}

\* the entries given to Intersections::new: t behind the origin, at it, in
\* front of it and NaN, on either sphere of the default world
Ts == {F(-1), F(0), F(1), F(2), NaN}
Objects == {DefaultWorld.objects[1], DefaultWorld.objects[2]}
Entries == {Intersection(t, o) : t \in Ts, o \in Objects}
Inputs == UNION {[1..n -> Entries] : n \in 0..MaxLen}

\* the cameras of the model
Cameras ==
    {[CameraNew(h, v, "PI/2") EXCEPT !.transform = t] :
        h \in 0..MaxH, v \in 0..MaxV, t \in Transforms}

\* cartesian_product(0..xend, 0..yend): x-major, nothing when a range is empty
HasNext(it) == it.yend > 0 /\ it.x < it.xend
Advance(it) ==
    IF it.y + 1 < it.yend THEN [it EXCEPT !.y = it.y + 1]
    ELSE [it EXCEPT !.x = it.x + 1, !.y = 0]

\* the first n items of the iterator
RECURSIVE TakeItems(_, _)
TakeItems(it, n) ==
    IF n = 0 \/ ~HasNext(it) THEN {}
    ELSE {<<it.x, it.y>>} \cup TakeItems(Advance(it), n - 1)

\* the (x, y) that the pool threads of a render of cam can take: all of the
\* product, or, when a range has wrapped around, one item per thread, because
\* every task of such a render panics
Items(cam) ==
    LET xend == usize_sub(cam.hsize, 1, FALSE).val
        yend == usize_sub(cam.vsize, 1, FALSE).val
    IN  TakeItems([x |-> 0, y |-> 0, xend |-> xend, yend |-> yend],
                  IF cam.hsize >= 1 /\ cam.vsize >= 1 THEN xend * yend ELSE MaxThreads)

\* ray_for_pixel and color_at are pure: their values on the items of the
\* model's cameras and worlds, computed once
RayKeys == UNION {{<<cam, p>> : p \in Items(cam)} : cam \in Cameras}
RayTable == [k \in RayKeys |-> ray_for_pixel(k[1], k[2][1], k[2][2])] @@ <<>>
Rays == {RayTable[k].val : k \in {j \in RayKeys : RayTable[j].ok}}
ColorTable == [k \in Worlds \X Rays |-> color_at(k[1], k[2])] @@ <<>>

\* ------------------------------------------------------------------------
\* state
\* ------------------------------------------------------------------------

VARIABLES
    camera,         \* the Camera
    world,          \* the World
    overflow_checks,\* TRUE for a build with integer overflow checks
    threads,        \* number of threads of the rayon pool
    pc,             \* the caller: "idle" or inside render at "for_each"
    iter,           \* the cartesian_product iterator behind par_bridge
    canvas_mutex,   \* the Mutex<Canvas> of the render in progress
    worker,         \* per pool thread: position in the closure and its locals
    panicked,       \* a task of the render in progress has panicked
    outcome,        \* how the render that has just ended ended, "none" otherwise
    returned,       \* the canvases handed to the caller, oldest first
    writes,         \* write_pixel calls of the render in progress, per pixel
    renders,        \* calls of render so far
    input,          \* Intersections: the Vec given to Intersections::new
    built,          \* Intersections: the result of Intersections::new
    selected,       \* Intersections: the result of hit()
    step,           \* Intersections: position of the caller
    callee,         \* a single call: the function called, "off" when there is none
    args,           \* a single call: its arguments
    ret             \* a single call: Pending, or its result once it has ended

renderVars == <<camera, world, overflow_checks, threads, pc, iter, canvas_mutex, worker,
                panicked, outcome, returned, writes, renders>>
xsVars == <<input, built, selected, step>>
callVars == <<callee, args, ret>>
vars == <<camera, world, overflow_checks, threads, pc, iter, canvas_mutex, worker,
          panicked, outcome, returned, writes, renders, input, built, selected, step,
          callee, args, ret>>

Threads == 1..threads

IdleWorker == [pc |-> "idle"]

\* the Mutex before any render: no canvas
NoMutex == [data |-> CanvasNew(0, 0), locked_by |-> 0, poisoned |-> FALSE]

\* no render has been called
RenderIdle ==
    /\ pc = "idle"
    /\ iter = [x |-> 0, y |-> 0, xend |-> 0, yend |-> 0]
    /\ canvas_mutex = NoMutex
    /\ worker = [w \in 1..MaxThreads |-> IdleWorker]
    /\ panicked = FALSE
    /\ outcome = "none"
    /\ returned = <<>>
    /\ writes = <<>>
    /\ renders = 0

\* no Intersections is being built
XsIdle == input = <<>> /\ built = Panic /\ selected = [some |-> FALSE] /\ step = "off"

\* a call that has not ended yet
Pending == [ok |-> FALSE, pending |-> TRUE]

\* no single call is being made
CallIdle == callee = "off" /\ args = <<>> /\ ret = Pending

\* a camera and a world have been constructed, in a build with or without
\* overflow checks, for a pool of 1..MaxThreads threads
Init ==
    /\ camera \in Cameras
    /\ world \in Worlds
    /\ overflow_checks \in BOOLEAN
    /\ threads \in 1..MaxThreads
    /\ RenderIdle
    /\ XsIdle
    /\ CallIdle

\* ------------------------------------------------------------------------
\* Camera::set_transform and Camera::render
\* ------------------------------------------------------------------------

\* Camera::set_transform, between renders
SetTransform(t) ==
    /\ pc = "idle"
    /\ camera.transform # t
    /\ camera' = [camera EXCEPT !.transform = t]
    /\ outcome' = "none"
    /\ UNCHANGED <<world, overflow_checks, threads, pc, iter, canvas_mutex, worker,
                   panicked, returned, writes, renders>>
    /\ UNCHANGED <<xsVars, callVars>>

\* render up to the start of for_each: the Mutex around a new canvas and the
\* two ranges; an underflow of hsize - 1 or vsize - 1 panics right here
RenderBegin ==
    /\ pc = "idle"
    /\ renders < MaxRenders
    /\ renders' = renders + 1
    /\ canvas_mutex' = [data |-> CanvasNew(camera.hsize, camera.vsize),
                        locked_by |-> 0, poisoned |-> FALSE]
    /\ writes' = [p \in (0..(camera.hsize - 1)) \X (0..(camera.vsize - 1)) |-> 0]
    /\ worker' = [w \in 1..MaxThreads |-> IdleWorker]
    /\ panicked' = FALSE
    /\ LET xend == usize_sub(camera.hsize, 1, overflow_checks)
           yend == usize_sub(camera.vsize, 1, overflow_checks)
       IN  IF xend.ok /\ yend.ok
           THEN /\ iter' = [x |-> 0, y |-> 0, xend |-> xend.val, yend |-> yend.val]
                /\ pc' = "for_each"
                /\ outcome' = "none"
           ELSE /\ iter' = iter
                /\ pc' = "idle"
                /\ outcome' = "panicked"
    /\ UNCHANGED <<camera, world, overflow_checks, threads, returned>>
    /\ UNCHANGED <<xsVars, callVars>>

\* a pool thread takes the next (x, y) from the bridged iterator and starts
\* the closure on it: let ray = self.ray_for_pixel(x, y);
RayForPixel(w) ==
    /\ pc = "for_each"
    /\ worker[w].pc = "idle"
    /\ HasNext(iter)
    /\ iter' = Advance(iter)
    /\ LET ray == RayTable[<<camera, <<iter.x, iter.y>>>>]
       IN  IF ray.ok
           THEN /\ worker' = [worker EXCEPT ![w] =
                                [pc |-> "color_at", x |-> iter.x, y |-> iter.y,
                                 ray |-> ray.val]]
                /\ panicked' = panicked
           ELSE /\ worker' = [worker EXCEPT ![w] = [pc |-> "panicked"]]
                /\ panicked' = TRUE
    /\ UNCHANGED <<camera, world, overflow_checks, threads, pc, canvas_mutex,
                   outcome, returned, writes, renders>>
    /\ UNCHANGED <<xsVars, callVars>>

\* a pool thread finds the iterator exhausted and leaves for_each
Finish(w) ==
    /\ pc = "for_each"
    /\ worker[w].pc = "idle"
    /\ ~HasNext(iter)
    /\ worker' = [worker EXCEPT ![w] = [pc |-> "done"]]
    /\ UNCHANGED <<camera, world, overflow_checks, threads, pc, iter, canvas_mutex,
                   panicked, outcome, returned, writes, renders>>
    /\ UNCHANGED <<xsVars, callVars>>

\* ColorAt with the color kept in one place shared by the pool threads: it
\* replaces the color of every thread that is about to write
ColorAtShared(w) ==
    /\ pc = "for_each"
    /\ worker[w].pc = "color_at"
    /\ LET color == ColorTable[<<world, worker[w].ray>>]
       IN  IF color.ok
           THEN /\ worker' = [u \in DOMAIN worker |->
                                IF u = w
                                THEN [pc |-> "lock", x |-> worker[w].x, y |-> worker[w].y,
                                      color |-> color.val]
                                ELSE IF worker[u].pc \in {"lock", "write_pixel"}
                                     THEN [worker[u] EXCEPT !.color = color.val]
                                     ELSE worker[u]]
                /\ panicked' = panicked
           ELSE /\ worker' = [worker EXCEPT ![w] = [pc |-> "panicked"]]
                /\ panicked' = TRUE
    /\ UNCHANGED <<camera, world, overflow_checks, threads, pc, iter, canvas_mutex,
                   outcome, returned, writes, renders>>
    /\ UNCHANGED <<xsVars, callVars>>

\* ColorAt on a world that color_at takes apart: the shape that was hit first
\* is gone afterwards
ColorAtConsuming(w) ==
    /\ pc = "for_each"
    /\ worker[w].pc = "color_at"
    /\ LET color == ColorTable[<<world, worker[w].ray>>]
       IN  IF color.ok
           THEN /\ worker' = [worker EXCEPT ![w] =
                                [pc |-> "lock", x |-> worker[w].x, y |-> worker[w].y,
                                 color |-> color.val]]
                /\ panicked' = panicked
           ELSE /\ worker' = [worker EXCEPT ![w] = [pc |-> "panicked"]]
                /\ panicked' = TRUE
    /\ world' = [world EXCEPT !.objects = Tail(world.objects)]
    /\ UNCHANGED <<camera, overflow_checks, threads, pc, iter, canvas_mutex,
                   outcome, returned, writes, renders>>
    /\ UNCHANGED <<xsVars, callVars>>

\* let color = w.color_at(ray);
ColorAt(w) ==
    /\ pc = "for_each"
    /\ worker[w].pc = "color_at"
    /\ LET color == ColorTable[<<world, worker[w].ray>>]
       IN  IF color.ok
           THEN /\ worker' = [worker EXCEPT ![w] =
                                [pc |-> "lock", x |-> worker[w].x, y |-> worker[w].y,
                                 color |-> color.val]]
                /\ panicked' = panicked
           ELSE /\ worker' = [worker EXCEPT ![w] = [pc |-> "panicked"]]
                /\ panicked' = TRUE
    /\ UNCHANGED <<camera, world, overflow_checks, threads, pc, iter, canvas_mutex,
                   outcome, returned, writes, renders>>
    /\ UNCHANGED <<xsVars, callVars>>

\* Lock that does not wait for the Mutex to be free
LockNoWait(w) ==
    /\ pc = "for_each"
    /\ worker[w].pc = "lock"
    /\ IF canvas_mutex.poisoned
       THEN /\ worker' = [worker EXCEPT ![w] = [pc |-> "panicked"]]
            /\ panicked' = TRUE
            /\ canvas_mutex' = canvas_mutex
       ELSE /\ worker' = [worker EXCEPT ![w].pc = "write_pixel"]
            /\ panicked' = panicked
            /\ canvas_mutex' = [canvas_mutex EXCEPT !.locked_by = w]
    /\ UNCHANGED <<camera, world, overflow_checks, threads, pc, iter,
                   outcome, returned, writes, renders>>
    /\ UNCHANGED <<xsVars, callVars>>

\* let mut canvas = canvas_mutex.lock().unwrap(); the thread waits while the
\* Mutex is held, and the unwrap panics on a poisoned Mutex
Lock(w) ==
    /\ pc = "for_each"
    /\ worker[w].pc = "lock"
    /\ canvas_mutex.locked_by = 0
    /\ IF canvas_mutex.poisoned
       THEN /\ worker' = [worker EXCEPT ![w] = [pc |-> "panicked"]]
            /\ panicked' = TRUE
            /\ canvas_mutex' = canvas_mutex
       ELSE /\ worker' = [worker EXCEPT ![w].pc = "write_pixel"]
            /\ panicked' = panicked
            /\ canvas_mutex' = [canvas_mutex EXCEPT !.locked_by = w]
    /\ UNCHANGED <<camera, world, overflow_checks, threads, pc, iter,
                   outcome, returned, writes, renders>>
    /\ UNCHANGED <<xsVars, callVars>>

\* canvas.write_pixel(x, y, color); and the end of the closure, which drops
\* the guard; a panic inside write_pixel unwinds through the guard, which
\* unlocks and poisons the Mutex
WritePixel(w) ==
    /\ pc = "for_each"
    /\ worker[w].pc = "write_pixel"
    /\ LET canvas == write_pixel(canvas_mutex.data, worker[w].x, worker[w].y, worker[w].color)
       IN  IF canvas.ok
           THEN /\ canvas_mutex' = [canvas_mutex EXCEPT !.data = canvas.val, !.locked_by = 0]
                /\ worker' = [worker EXCEPT ![w] = IdleWorker]
                /\ writes' = [writes EXCEPT ![<<worker[w].x, worker[w].y>>] = @ + 1]
                /\ panicked' = panicked
           ELSE /\ canvas_mutex' = [canvas_mutex EXCEPT !.locked_by = 0, !.poisoned = TRUE]
                /\ worker' = [worker EXCEPT ![w] = [pc |-> "panicked"]]
                /\ writes' = writes
                /\ panicked' = TRUE
    /\ UNCHANGED <<camera, world, overflow_checks, threads, pc, iter,
                   outcome, returned, renders>>
    /\ UNCHANGED <<xsVars, callVars>>

\* RenderEnd that hands out the canvas whatever happened to the tasks, as
\* into_inner().unwrap_or_else(|e| e.into_inner()) after swallowing the panic
RenderEndSalvage ==
    /\ pc = "for_each"
    /\ \A w \in Threads : worker[w].pc \in {"done", "panicked"}
    /\ pc' = "idle"
    /\ outcome' = "returned"
    /\ returned' = Append(returned, canvas_mutex.data)
    /\ UNCHANGED <<camera, world, overflow_checks, threads, iter, canvas_mutex, worker,
                   panicked, writes, renders>>
    /\ UNCHANGED <<xsVars, callVars>>

\* for_each is over when every pool thread has left it; a panic of a task is
\* resumed in the caller, otherwise canvas_mutex.into_inner().unwrap() is returned
RenderEnd ==
    /\ pc = "for_each"
    /\ \A w \in Threads : worker[w].pc \in {"done", "panicked"}
    /\ pc' = "idle"
    /\ IF panicked \/ canvas_mutex.poisoned
       THEN /\ outcome' = "panicked"
            /\ returned' = returned
       ELSE /\ outcome' = "returned"
            /\ returned' = Append(returned, canvas_mutex.data)
    /\ UNCHANGED <<camera, world, overflow_checks, threads, iter, canvas_mutex, worker,
                   panicked, writes, renders>>
    /\ UNCHANGED <<xsVars, callVars>>

Next ==
    \/ \E t \in Transforms : SetTransform(t)
    \/ RenderBegin
    \/ \E w \in Threads : RayForPixel(w)
    \/ \E w \in Threads : Finish(w)
    \/ \E w \in Threads : ColorAt(w)
    \/ \E w \in Threads : Lock(w)
    \/ \E w \in Threads : WritePixel(w)
    \/ RenderEnd

Spec == Init /\ [][Next]_vars

\* ------------------------------------------------------------------------
\* Intersections::new and Intersections::hit on their own
\* ------------------------------------------------------------------------

\* a caller holds a Vec of intersections
InitXs ==
    /\ camera = CameraNew(1, 1, "PI/2")
    /\ world = DefaultWorld
    /\ overflow_checks = TRUE
    /\ threads = 1
    /\ RenderIdle
    /\ input \in Inputs
    /\ built = Panic
    /\ selected = [some |-> FALSE]
    /\ step = "new"
    /\ CallIdle

\* Intersections::new(input)
XsNew ==
    /\ step = "new"
    /\ built' = IntersectionsNew(input)
    /\ step' = IF built'.ok THEN "hit" ELSE "panicked"
    /\ UNCHANGED <<input, selected>>
    /\ UNCHANGED <<renderVars, callVars>>

\* xs.hit()
XsHit ==
    /\ step = "hit"
    /\ selected' = hit(built.val)
    /\ step' = "done"
    /\ UNCHANGED <<input, built>>
    /\ UNCHANGED <<renderVars, callVars>>

NextXs == XsNew \/ XsHit

SpecXs == InitXs /\ [][NextXs]_vars

\* ------------------------------------------------------------------------
\* properties of Camera::render
\* ------------------------------------------------------------------------

\* the canvas that the render which has just returned handed to the caller
LastCanvas == returned[Len(returned)]

\* the full pixel grid of a camera
Grid(cam) == (0..(cam.hsize - 1)) \X (0..(cam.vsize - 1))

\* the pool threads that are past lock() and have not yet dropped the guard
Holders == {w \in Threads : worker[w].pc = "write_pixel"}

\* the indices at which two canvases of the same size differ
Differing(a, b) == {i \in DOMAIN a.pixels : a.pixels[i] # b.pixels[i]}

RECURSIVE SequentialRender(_, _, _, _)
\* the tasks of a render run one after the other, in the order of the iterator
SequentialRender(cam, w, it, canvas) ==
    IF ~HasNext(it) THEN Ok(canvas)
    ELSE AndThen(RayTable[<<cam, <<it.x, it.y>>>>], LAMBDA ray :
         AndThen(ColorTable[<<w, ray>>], LAMBDA color :
         AndThen(write_pixel(canvas, it.x, it.y, color), LAMBDA written :
         SequentialRender(cam, w, Advance(it), written))))

\* what a render of cam and w gives when a single thread runs its tasks in order
Sequential(cam, w, checks) ==
    AndThen(usize_sub(cam.hsize, 1, checks), LAMBDA xend :
    AndThen(usize_sub(cam.vsize, 1, checks), LAMBDA yend :
    SequentialRender(cam, w, [x |-> 0, y |-> 0, xend |-> xend, yend |-> yend],
                     CanvasNew(cam.hsize, cam.vsize))))

\* the camera transform and every shape transform of the world are invertible
AllInvertible ==
    /\ is_invertible(camera.transform)
    /\ \A i \in DOMAIN world.objects : is_invertible(world.objects[i].transform)

\* C1: when render has returned, every pixel (x, y) of the full grid, the last
\* column and the last row included, holds color_at(ray_for_pixel(x, y)).
C1_EveryPixelOfGridRendered ==
    outcome = "returned" =>
        \A p \in Grid(camera) :
            LET ray == ray_for_pixel(camera, p[1], p[2])
            IN  /\ ray.ok
                /\ LET color == color_at(world, ray.val)
                   IN  color.ok => pixel_at(LastCanvas, p[1], p[2]) = color

\* C2: when render has returned, write_pixel has been called exactly once for
\* every (x, y) of the grid.
C2_EveryPixelWrittenOnce ==
    outcome = "returned" => \A p \in Grid(camera) : writes[p] = 1

\* C3, in every state: at most one pool thread holds the canvas lock, it is the
\* one the Mutex names, and a thread that is computing a ray or a color, or is
\* waiting in lock(), does not hold it.
C3_OneHolder ==
    /\ Cardinality(Holders) <= 1
    /\ \A w \in Threads : (canvas_mutex.locked_by = w) <=> (w \in Holders)

\* C3, in every step: the canvas of a render in progress changes only in a step
\* of the thread holding the lock, by exactly one pixel, and the next step of a
\* thread that holds the lock releases it.
C3_WriteUnderLock ==
    /\ (pc = "for_each" /\ canvas_mutex'.data # canvas_mutex.data) =>
           \E w \in Holders :
               /\ canvas_mutex.locked_by = w
               /\ worker'[w] # worker[w]
               /\ Cardinality(Differing(canvas_mutex.data, canvas_mutex'.data)) = 1
    /\ \A w \in Holders : worker'[w] # worker[w] => canvas_mutex'.locked_by = 0

\* C3: at most one worker holds the canvas lock at any time, every canvas write
\* happens while the writing worker holds the lock, and a worker holds the lock
\* for one pixel write only, not while it computes the ray and the color, and
\* then releases it.
C3_LockDiscipline == []C3_OneHolder /\ [][C3_WriteUnderLock]_vars

\* a thread is about to write under the lock while another waits for the lock
C3_Witness ==
    \E w \in Holders :
        /\ canvas_mutex.locked_by = w
        /\ \E u \in Threads : u # w /\ worker[u].pc = "lock"

\* C4: whether render returns, and the canvas it returns, are those of the
\* tasks run one after the other by a single thread, whatever the number of
\* pool threads and the interleaving of their steps.
C4_RenderDeterministic ==
    (pc = "idle" /\ outcome # "none") =>
        LET expected == Sequential(camera, world, overflow_checks)
        IN  /\ (outcome = "returned") = expected.ok
            /\ expected.ok => LastCanvas = expected.val

\* a render on two pool threads has returned a canvas with two pixels of
\* different colors, neither of them black
C4_Witness ==
    /\ outcome = "returned"
    /\ threads >= 2
    /\ \E i, j \in DOMAIN LastCanvas.pixels :
           /\ LastCanvas.pixels[i] # LastCanvas.pixels[j]
           /\ LastCanvas.pixels[i] # black
           /\ LastCanvas.pixels[j] # black

\* C5: the canvas render returns has width hsize, height vsize and exactly
\* hsize * vsize pixels, indexed from 0; a written pixel (x, y) is found at
\* index y * width + x, so that (0, 0) is the first one.
C5_CanvasLayout ==
    outcome = "returned" =>
        /\ LastCanvas.width = camera.hsize
        /\ LastCanvas.height = camera.vsize
        /\ DOMAIN LastCanvas.pixels = 0..(camera.hsize * camera.vsize - 1)
        /\ \A p \in Grid(camera) :
               LastCanvas.pixels[p[2] * camera.hsize + p[1]] =
                   IF writes[p] = 0 THEN black
                   ELSE ColorTable[<<world, RayTable[<<camera, p>>].val>>].val

\* a 3 x 2 canvas has been returned with pixel (1, 0) written, at index 1
C5_Witness ==
    /\ outcome = "returned"
    /\ camera.hsize = 3 /\ camera.vsize = 2
    /\ writes[<<1, 0>>] = 1
    /\ LastCanvas.pixels[1] # black

\* C6: a render in which a task has panicked hands no canvas to the caller,
\* and no step changes or removes a canvas returned earlier.
C6_AbortReturnsNoCanvas ==
    [][/\ Len(returned') >= Len(returned)
       /\ SubSeq(returned', 1, Len(returned)) = returned
       /\ outcome' = "panicked" => returned' = returned
       /\ (pc = "for_each" /\ pc' = "idle" /\ \E w \in Threads : worker[w].pc = "panicked")
              => (outcome' = "panicked" /\ returned' = returned)]_vars

\* a render has been aborted by a panicking task after an earlier one returned
C6_Witness ==
    /\ pc = "idle" /\ outcome = "panicked"
    /\ Len(returned) >= 1
    /\ \E w \in Threads : worker[w].pc = "panicked"

\* C7, as a final result: with an invertible camera transform and invertible
\* shape transforms a render that has ended has returned its canvas.
C7_RenderCompletesWhenInvertible ==
    (pc = "idle" /\ outcome = "panicked") => ~AllInvertible

\* C8: from the call of render to its end no step changes the camera or the
\* world.
C8_WorldAndCameraUnchanged ==
    [][(pc = "for_each" \/ pc' = "for_each") => (camera' = camera /\ world' = world)]_vars

\* a render on one thread has returned after computing the color of a pixel
C8_Witness ==
    /\ pc = "idle" /\ outcome = "returned"
    /\ threads = 1
    /\ \E p \in DOMAIN writes : writes[p] = 1

\* C29: a render on a camera with hsize = 0 or vsize = 0 completes and returns
\* an empty canvas: the loop bounds hsize - 1 and vsize - 1 neither abort on
\* underflow nor wrap around, so that no task is run.
C29_EmptyCameraRendersEmpty ==
    (pc = "idle" /\ outcome # "none" /\ (camera.hsize = 0 \/ camera.vsize = 0)) =>
        /\ outcome = "returned"
        /\ DOMAIN LastCanvas.pixels = {}
        /\ iter.xend < 2 ^ (USIZE_BITS - 1) /\ iter.yend < 2 ^ (USIZE_BITS - 1)
        /\ \A w \in Threads : worker[w].pc # "panicked"

\* ------------------------------------------------------------------------
\* properties of Intersections
\* ------------------------------------------------------------------------

\* the positions of the entries in front of the ray origin
PositiveAt(xs) == {i \in DOMAIN xs : FGt(xs[i].t, F(0))}

\* entry i has the smallest strictly positive t of xs
SmallestPositive(xs, i) ==
    i \in PositiveAt(xs) /\ \A j \in PositiveAt(xs) : FLe(xs[i].t, xs[j].t)

\* the orders in which the entries of xs can be supplied
Orders(xs) ==
    {[i \in 1..Len(xs) |-> xs[f[i]]] :
        f \in {g \in [1..Len(xs) -> 1..Len(xs)] :
                  \A a, b \in 1..Len(xs) : a # b => g[a] # g[b]}}

\* hit() of the Intersections built from xs
HitOf(xs) == AndThen(IntersectionsNew(xs), LAMBDA is : Ok(hit(is)))

\* the entries are in non-decreasing order of t
Sorted(is) == \A i \in 1..(Len(is) - 1) : FLe(is[i].t, is[i + 1].t)

\* how often e occurs in xs
Count(e, xs) == Cardinality({i \in DOMAIN xs : xs[i] = e})

\* xs and ys hold the same entries, each as often
SameEntries(xs, ys) ==
    /\ Len(xs) = Len(ys)
    /\ \A i \in DOMAIN xs : Count(xs[i], xs) = Count(xs[i], ys)

\* C9: hit() returns an entry with the smallest strictly positive t, none
\* exactly when no entry has t > 0, and the same result for every order in
\* which the entries are supplied.
C9_HitAsStated ==
    step = "done" =>
        /\ selected.some =>
               \E i \in DOMAIN input : input[i] = selected.val /\ SmallestPositive(input, i)
        /\ ~selected.some <=> PositiveAt(input) = {}
        /\ \A xs \in Orders(input) : HitOf(xs) = Ok(selected)

\* C9, amended: hit() returns an entry with the smallest strictly positive t,
\* the one supplied first among those that share it, none exactly when no entry
\* has t > 0, and for every order of the entries the same t, or none.
C9_HitSmallestPositiveFirstSupplied ==
    step = "done" =>
        /\ selected.some =>
               \E i \in DOMAIN input :
                   /\ input[i] = selected.val
                   /\ SmallestPositive(input, i)
                   /\ \A j \in 1..(i - 1) : input[j].t # input[i].t
        /\ ~selected.some <=> PositiveAt(input) = {}
        /\ \A xs \in Orders(input) :
               /\ HitOf(xs).ok
               /\ HitOf(xs).val.some = selected.some
               /\ selected.some => HitOf(xs).val.val.t = selected.val.t

\* hit() has passed over an entry with t <= 0 and chosen between two entries
\* on different shapes that share the smallest positive t
C9_Witness ==
    /\ step = "done" /\ selected.some
    /\ \E i \in DOMAIN input : FLe(input[i].t, F(0))
    /\ \E i, j \in DOMAIN input :
           /\ i < j
           /\ input[i] = selected.val
           /\ input[j].t = input[i].t
           /\ input[j].object # input[i].object

\* the results of Shape::intersect and World::intersect on the rays of the
\* cameras are in non-decreasing order of t
IntersectSorted ==
    \A k \in Worlds \X Rays :
        /\ \A i \in DOMAIN k[1].objects :
               LET xs == ShapeIntersect(k[1].objects[i], k[2])
               IN  xs.ok => Sorted(xs.val.intersections)
        /\ LET xs == WorldIntersect(k[1], k[2])
           IN  xs.ok => Sorted(xs.val.intersections)

\* C10: the Intersections built by Intersections::new lists its entries in
\* non-decreasing order of t and holds the same entries as the input, each as
\* often; so do the results of Shape::intersect and World::intersect.
C10_NewSortsAndKeepsEntries ==
    /\ step \in {"hit", "done"} =>
           /\ Sorted(built.val.intersections)
           /\ SameEntries(input, built.val.intersections)
    /\ IntersectSorted

\* Intersections::new has reordered an input that holds an entry twice
C10_Witness ==
    /\ step = "hit"
    /\ Len(input) >= 3
    /\ ~Sorted(input)
    /\ built.val.intersections # input
    /\ \E i, j \in DOMAIN input : i < j /\ input[i] = input[j]

\* ------------------------------------------------------------------------
\* World::intersect, World::color_at and World::is_shadowed on their own
\* ------------------------------------------------------------------------

\* no render and no Intersections of its own: the caller only makes one call
OnlyCall ==
    /\ camera = CameraNew(1, 1, "PI/2")
    /\ overflow_checks = TRUE
    /\ threads = 1
    /\ RenderIdle
    /\ XsIdle

\* the ray of tests::intersect_world_with_ray
RayTowardsZ == RayNew(point(F(0), F(0), F(-5)), vector(F(0), F(0), F(1))).val

\* the rays given to intersect and color_at: through both spheres, past them,
\* from between the spheres, from the common centre, from behind them, down
\* onto the floor, without a direction, and the rays of the cameras
WorldRays ==
    {RayTowardsZ,
     RayNew(point(F(0), F(0), F(-5)), vector(F(0), F(1), F(0))).val,
     RayNew(point(F(0), F(0), 750), vector(F(0), F(0), F(-1))).val,
     RayNew(point(F(0), F(0), F(0)), vector(F(0), F(0), F(1))).val,
     RayNew(point(F(0), F(0), F(5)), vector(F(0), F(0), F(1))).val,
     RayNew(point(F(0), F(3), F(0)), vector(F(0), F(-1), F(0))).val,
     RayNew(point(F(0), F(0), F(-5)), vector(F(0), F(0), F(0))).val} \cup Rays

\* the points given to is_shadowed of w: beside the spheres, behind them as
\* seen from the light, in front of the spheres (beyond the light of
\* NearLightWorld), between light and spheres, and the position of the light
WorldPoints(w) ==
    {point(F(0), F(3), F(0)),
     point(F(3), F(-3), F(3)),
     point(F(0), F(0), F(-5)),
     point(F(-2), F(2), F(-2)),
     w.light_source.position}

\* the default spheres with the light close in front of them
NearLightWorld == World(DefaultWorld.objects, LightPoint(point(F(0), F(0), F(-3)), white))

\* two unit spheres in the same place with two materials, in both orders
CoincidentWorlds ==
    {World(<<Sphere(identity(4), DefaultMaterial), Sphere(identity(4), WorldMaterial)>>,
           DefaultLight),
     World(<<Sphere(identity(4), WorldMaterial), Sphere(identity(4), DefaultMaterial)>>,
           DefaultLight)}

\* the worlds that are queried
QueryWorlds == Worlds \cup {NearLightWorld} \cup CoincidentWorlds

\* world.intersect(ray)
CallIntersect ==
    /\ callee = "intersect" /\ ret = Pending
    /\ ret' = WorldIntersect(world, args.ray)
    /\ UNCHANGED <<callee, args, renderVars, xsVars>>

\* world.color_at(ray)
CallColorAt ==
    /\ callee = "color_at" /\ ret = Pending
    /\ ret' = color_at(world, args.ray)
    /\ UNCHANGED <<callee, args, renderVars, xsVars>>

\* world.is_shadowed(point)
CallIsShadowed ==
    /\ callee = "is_shadowed" /\ ret = Pending
    /\ ret' = is_shadowed(world, args.point)
    /\ UNCHANGED <<callee, args, renderVars, xsVars>>

\* the call of f has returned a value
Returned(f) == callee = f /\ ret # Pending /\ ret.ok

\* what each shape of the world returns for the ray, in the order of the shapes
PerShape(w, ray) == [i \in DOMAIN w.objects |-> ShapeIntersect(w.objects[i], ray)]

RECURSIVE CountPerShape(_, _, _)
\* how often e occurs in the results of the first n shapes
CountPerShape(per, e, n) ==
    IF n = 0 THEN 0
    ELSE CountPerShape(per, e, n - 1) + Count(e, per[n].val.intersections)

RECURSIVE LenPerShape(_, _)
\* the number of intersections of the first n shapes
LenPerShape(per, n) ==
    IF n = 0 THEN 0 ELSE LenPerShape(per, n - 1) + Len(per[n].val.intersections)

\* C11: a returned World::intersect(ray) holds as many entries as the shapes
\* of the world return together for the ray, every entry, with its shape, as
\* often as the shapes return it, in non-decreasing order of t; for the
\* default world and the ray from (0,0,-5) toward +z the t are 4, 4.5, 5.5, 6.
C11_WorldIntersectIsUnionOfShapes ==
    Returned("intersect") =>
        LET xs == ret.val.intersections
            per == PerShape(world, args.ray)
            n == Len(world.objects)
        IN  /\ \A i \in 1..n : per[i].ok
            /\ Len(xs) = LenPerShape(per, n)
            /\ \A k \in DOMAIN xs : Count(xs[k], xs) = CountPerShape(per, xs[k], n)
            /\ \A i \in 1..n : \A k \in DOMAIN per[i].val.intersections :
                   /\ per[i].val.intersections[k].object = world.objects[i]
                   /\ Count(per[i].val.intersections[k], xs) >= 1
            /\ Sorted(xs)
            /\ (world = DefaultWorld /\ args.ray = RayTowardsZ) =>
                   [k \in DOMAIN xs |-> xs[k].t] = <<F(4), 4500, 5500, F(6)>>

\* intersect has returned four entries for the default world, those of the
\* inner sphere between those of the outer one
C11_Witness ==
    /\ Returned("intersect")
    /\ world = DefaultWorld
    /\ Len(ret.val.intersections) = 4
    /\ ret.val.intersections[1].object = world.objects[1]
    /\ ret.val.intersections[2].object = world.objects[2]
    /\ ret.val.intersections[3].object = world.objects[2]
    /\ ret.val.intersections[4].object = world.objects[1]

\* all intersections of the shapes of w with the ray, in the order of the shapes
AllOf(w, ray) == FlatMapIntersect(w.objects, ray, 1).val

\* C12: a returned World::color_at(ray) is black when no shape has an
\* intersection with t > 0; otherwise it is shade_hit of the computed
\* intersection with the smallest t > 0 over all shapes, never of one with
\* t <= 0.
C12_ColorAtShadesNearestHit ==
    Returned("color_at") =>
        LET all == AllOf(world, args.ray)
        IN  IF PositiveAt(all) = {} THEN ret.val = black
            ELSE \E i \in DOMAIN all :
                     /\ SmallestPositive(all, i)
                     /\ LET comp == as_computed(all[i], args.ray)
                        IN  comp.ok /\ ret = shade_hit(world, comp.val)

\* color_at has shaded a shape in front of the ray origin although another
\* intersection lies behind the origin
C12_Witness ==
    /\ Returned("color_at")
    /\ ret.val # black
    /\ \E i \in DOMAIN AllOf(world, args.ray) : FLe(AllOf(world, args.ray)[i].t, F(0))
    /\ PositiveAt(AllOf(world, args.ray)) # {}

\* C13: a returned World::is_shadowed(point) is true exactly when the ray from
\* the point toward the light has a hit, the smallest t > 0 over all shapes,
\* with t strictly less than the distance from the point to the light.
C13_ShadowedIffHitBeforeLight ==
    Returned("is_shadowed") =>
        LET v == TupleSub(world.light_source.position, args.point)
            all == AllOf(world, [origin |-> args.point, direction |-> normalize(v)])
        IN  ret.val <=> \E i \in DOMAIN all :
                            SmallestPositive(all, i) /\ FLt(all[i].t, magnitude(v))

\* is_shadowed has returned false for a point whose ray toward the light hits
\* a shape, beyond the light
C13_Witness ==
    /\ Returned("is_shadowed")
    /\ ~ret.val
    /\ LET v == TupleSub(world.light_source.position, args.point)
       IN  PositiveAt(AllOf(world, [origin |-> args.point, direction |-> normalize(v)])) # {}

\* ------------------------------------------------------------------------
\* Ray::new on its own
\* ------------------------------------------------------------------------

\* the w of the tuples given to Ray::new: that of a vector, of a point, and
\* others, NaN among them
Ws == {F(0), F(1), F(2), F(-1), HALF, NaN}

\* the tuples given to Ray::new
RayTuples == {Tuple(x, F(2), F(-3), w) : x \in {F(0), F(1)}, w \in Ws}

\* Ray::new(origin, direction)
CallRayNew ==
    /\ callee = "Ray::new" /\ ret = Pending
    /\ ret' = RayNew(args.origin, args.direction)
    /\ UNCHANGED <<callee, args, renderVars, xsVars>>

\* a is within epsilon of b
Within(a, b) == FLt(FAbs(FSub(a, b)), EPSILON)

\* C14: Ray::new(origin, direction) panics, and yields no Ray, whenever the w
\* of origin is not that of a point (1, within epsilon) or the w of direction
\* is not that of a vector (0, within epsilon); otherwise it returns the ray
\* that stores origin and direction unchanged.
C14_RayNewChecksKinds ==
    (callee = "Ray::new" /\ ret # Pending) =>
        IF Within(args.origin.w, F(1)) /\ Within(args.direction.w, F(0))
        THEN ret = Ok([origin |-> args.origin, direction |-> args.direction])
        ELSE ret = Panic

\* Ray::new has panicked on a point and a direction that is no vector
C14_Witness ==
    /\ callee = "Ray::new" /\ ret = Panic
    /\ args.origin.w = F(1)
    /\ args.direction.w = F(1)

\* ------------------------------------------------------------------------
\* Matrix<4>::is_invertible and Matrix<4>::inverse on their own
\* ------------------------------------------------------------------------

\* transforms whose entries, cofactors and inverses are exact on the grid
Generators ==
    {identity(4), translation(F(5), F(-3), F(2)), scaling(F(2), F(2), HALF),
     rotation_x("PI/2"), rotation_z("PI/2"), rotation_z("PI"),
     shearing(F(1), F(0), F(0), F(0), F(2), F(0))}

\* the matrix of tests::testing_an_noninvertible_matrix_for_invertibility
NonInvertible ==
    << <<F(-4), F(2), F(-2), F(-3)>>,
       <<F(9), F(6), F(2), F(6)>>,
       <<F(0), F(-5), F(1), F(-5)>>,
       <<F(0), F(0), F(0), F(0)>> >>

\* the matrices given to is_invertible and inverse: the generators and their
\* products, a scaling whose determinant is the smallest that is not within
\* epsilon of zero, and matrices with a determinant of zero, within epsilon
\* of zero, and NaN
Matrices ==
    {MatrixMul(a, b) : a \in Generators, b \in Generators}
        \cup {scaling(100, 100, 100), NonInvertible, scaling(F(0), F(1), F(1)),
              scaling(50, 50, 50), scaling(NaN, F(1), F(1))}

\* m.is_invertible()
CallIsInvertible ==
    /\ callee = "is_invertible" /\ ret = Pending
    /\ ret' = Ok(is_invertible(args.m))
    /\ UNCHANGED <<callee, args, renderVars, xsVars>>

\* m.inverse()
CallInverse ==
    /\ callee = "inverse" /\ ret = Pending
    /\ ret' = inverse(args.m)
    /\ UNCHANGED <<callee, args, renderVars, xsVars>>

FiniteMatrix(m) == \A row \in 0..3 : \A column \in 0..3 : IsFinite(At(m, row, column))

\* C16: for a matrix M of finite entries on which inverse() returns, entry
\* [column][row] of the inverse is cofactor(row, column) / determinant,
\* M x M.inverse() equals the identity within epsilon in every component, and
\* (A x M) x M.inverse() equals A for every generator A.
C16_InverseTimesMatrixIsIdentity ==
    (Returned("inverse") /\ FiniteMatrix(args.m)) =>
        /\ \A row \in 0..3 : \A column \in 0..3 :
               At(ret.val, column, row) =
                   FDiv(cofactor(args.m, row, column), determinant(args.m))
        /\ MatrixFuzzyEq(MatrixMul(args.m, ret.val), identity(4))
        /\ \A a \in Generators :
               MatrixFuzzyEq(MatrixMul(MatrixMul(a, args.m), ret.val), a)

\* inverse() has returned for a matrix that is neither symmetric nor its own
\* inverse
C16_Witness ==
    /\ Returned("inverse") /\ FiniteMatrix(args.m)
    /\ args.m # tranpose(args.m)
    /\ ret.val # args.m
    /\ ret.val # tranpose(args.m)

\* ------------------------------------------------------------------------
\* Shape::intersect and Shape::normal_at on their own
\* ------------------------------------------------------------------------

\* the shapes that are called: spheres and planes as they are, moved up by
\* one, scaled, turned by a quarter about x, and with a singular transform
ShapeTransforms ==
    {identity(4), translation(F(0), F(1), F(0)), scaling(F(2), F(2), F(2)),
     rotation_x("PI/2"), scaling(F(1), F(0), F(1))}
Shapes ==
    {Sphere(t, DefaultMaterial) : t \in ShapeTransforms}
        \cup {Plane(t, DefaultMaterial) : t \in ShapeTransforms}

\* the rays given to Shape::intersect: down the y axis from (0,3,0) and from
\* (0,3,-2), along z from (0,0,-5) and from (0,3,-2), and along z at the top
\* of the unit sphere, from its centre and from beyond it
ShapeRays ==
    {RayNew(point(F(0), F(3), F(0)), vector(F(0), F(-1), F(0))).val,
     RayNew(point(F(0), F(3), F(-2)), vector(F(0), F(-1), F(0))).val,
     RayTowardsZ,
     RayNew(point(F(0), F(3), F(-2)), vector(F(0), F(0), F(1))).val,
     RayNew(point(F(0), F(1), F(-5)), vector(F(0), F(0), F(1))).val,
     RayNew(point(F(0), F(0), F(0)), vector(F(0), F(0), F(1))).val,
     RayNew(point(F(0), F(0), F(5)), vector(F(0), F(0), F(1))).val}

\* the points given to Shape::normal_at
ShapePoints ==
    {point(F(0), F(2), F(0)), point(F(2), F(0), F(0)), point(F(0), F(0), F(-2)),
     point(F(1), F(1), F(1))}

\* shape.intersect(ray)
CallShapeIntersect ==
    /\ callee = "Shape::intersect" /\ ret = Pending
    /\ ret' = ShapeIntersect(args.shape, args.ray)
    /\ UNCHANGED <<callee, args, renderVars, xsVars>>

\* shape.normal_at(point), with the point that Intersection::as_computed hands
\* over: ray.position(t), a point in world space
CallNormalAt ==
    /\ callee = "Shape::normal_at" /\ ret = Pending
    /\ ret' = normal_at(args.shape, args.point)
    /\ UNCHANGED <<callee, args, renderVars, xsVars>>

\* the t of the entries of an Intersections, in their order
TsOf(is) == [k \in DOMAIN is.intersections |-> is.intersections[k].t]

\* the canonical geometry, the unit sphere at the origin or the plane y = 0,
\* solved against a ray
CanonicalIntersect(kind, ray) ==
    IF kind = "Sphere" THEN SphereIntersect(Sphere(identity(4), DefaultMaterial), ray)
    ELSE PlaneIntersect(Plane(identity(4), DefaultMaterial), ray)

\* C17: for a sphere and for a plane, a returned intersect(ray) holds the t at
\* which the ray, mapped into object space by the inverse of the transform of
\* the shape, meets the canonical geometry; for a plane moved up by k and the
\* ray down from (0, h, 0) that is t = h - k.
C17_IntersectInObjectSpace ==
    Returned("Shape::intersect") =>
        LET inv == inverse(args.shape.transform)
        IN  /\ inv.ok
            /\ LET expected == CanonicalIntersect(args.shape.kind,
                                                  RayTransform(args.ray, inv.val))
               IN  expected.ok /\ TsOf(ret.val) = TsOf(expected.val)

\* the normal of the canonical geometry at a point of object space
CanonicalNormal(kind, object_point) ==
    IF kind = "Sphere" THEN TupleSub(object_point, point(F(0), F(0), F(0)))
    ELSE vector(F(0), F(1), F(0))

\* C18: for a sphere and for a plane, a returned normal_at(world_point) is the
\* normal of the canonical geometry at the point mapped into object space,
\* multiplied by the transposed inverse of the transform, with w set to zero,
\* normalized.
C18_NormalByInverseTranspose ==
    Returned("Shape::normal_at") =>
        LET inv == inverse(args.shape.transform)
        IN  /\ inv.ok
            /\ LET object_point == MatrixMulTuple(inv.val, args.point)
                   object_normal == CanonicalNormal(args.shape.kind, object_point)
                   world_normal == MatrixMulTuple(tranpose(inv.val), object_normal)
               IN  ret.val = normalize([world_normal EXCEPT !.w = F(0)])

\* ------------------------------------------------------------------------
\* pattern.rs, and Material::lighting on its own
\* ------------------------------------------------------------------------

\* StripePattern { transform, color_a, color_b } as a Pattern::Stripe
StripePattern(transform, color_a, color_b) ==
    [kind |-> "Stripe", transform |-> transform, color_a |-> color_a, color_b |-> color_b]

\* x as i64 without the floor(): the cast rounds toward zero
TruncAsI64(x) ==
    IF IsNaN(x) THEN 0 ELSE IF x = Inf THEN 1 ELSE IF x = NegInf THEN 0
    ELSE IF x < 0 THEN -((-x) \div SCALE) ELSE x \div SCALE

\* x.floor() as i64: the cast takes NaN to 0 and saturates at the infinities,
\* whose parity is that of i64::MAX and i64::MIN
FloorAsI64(x) ==
    IF IsNaN(x) THEN 0 ELSE IF x = Inf THEN 1 ELSE IF x = NegInf THEN 0 ELSE x \div SCALE

\* impl PatternFuncs for StripePattern: color_at
StripeColorAt(p, pt) == IF FloorAsI64(pt.x) % 2 = 0 THEN p.color_a ELSE p.color_b

\* impl ShapeFuncs for Plane: world_point_to_object_point
world_point_to_object_point(shape, world_point) ==
    AndThen(inverse(shape.transform), LAMBDA inv : Ok(MatrixMulTuple(inv, world_point)))

\* Pattern::color_at_object
color_at_object(p, object, pt) ==
    AndThen(world_point_to_object_point(object, pt), LAMBDA object_point :
    AndThen(inverse(p.transform), LAMBDA inv :
    Ok(StripeColorAt(p, MatrixMulTuple(inv, object_point)))))

\* 2.0_f64.sqrt() / 2.0
HalfSqrt2 == FDiv(FSqrt(F(2)), F(2))

\* the arguments of lighting: the two materials, a point on the shape, the
\* light in front of the surface, above it, behind it and at the point, the
\* eye in front, above and in the path of the reflection, in shadow or not;
\* with them the shape that is shaded and the pattern that the scene gives the
\* material, None or a stripe pattern: Material has no field for a pattern
\* and lighting no parameter for the shape, so neither reaches lighting
LightingArgs ==
    [material : {DefaultMaterial, WorldMaterial},
     point : {point(F(0), F(0), F(0)), point(F(1), F(0), F(0))},
     light : {LightPoint(point(F(0), F(0), F(-10)), white),
              LightPoint(point(F(0), F(10), F(-10)), white),
              LightPoint(point(F(0), F(0), F(10)), white),
              LightPoint(point(F(0), F(0), F(0)), white)},
     eyev : {vector(F(0), F(0), F(-1)), vector(F(0), HalfSqrt2, FNeg(HalfSqrt2)),
             vector(F(0), FNeg(HalfSqrt2), FNeg(HalfSqrt2))},
     normalv : {vector(F(0), F(0), F(-1))},
     in_shadow : BOOLEAN,
     object : {Plane(identity(4), DefaultMaterial), Plane(scaling(F(2), F(2), F(2)), DefaultMaterial)},
     pattern : {[some |-> FALSE],
                [some |-> TRUE, val |-> StripePattern(identity(4), white, black)]}]

\* material.lighting(point, light, eyev, normalv, in_shadow)
CallLighting ==
    /\ callee = "Material::lighting" /\ ret = Pending
    /\ ret' = Ok(lighting(args.material, args.point, args.light, args.eyev, args.normalv,
                          args.in_shadow))
    /\ UNCHANGED <<callee, args, renderVars, xsVars>>

\* C19: when the material has a pattern, lighting returns what it returns for
\* the material with the color of the pattern at the shaded point, taken
\* through object space into pattern space, in place of material.color.
C19_PatternOverridesColor ==
    (Returned("Material::lighting") /\ args.pattern.some) =>
        LET c == color_at_object(args.pattern.val, args.object, args.point)
        IN  /\ c.ok
            /\ ret.val = lighting([args.material EXCEPT !.color = c.val], args.point,
                                  args.light, args.eyev, args.normalv, args.in_shadow)

\* C20: lighting with in_shadow returns the ambient term, material.color x
\* light.intensity x ambient, for every eye vector and light position; without
\* in_shadow it returns ambient + diffuse + specular, where diffuse and
\* specular are black when light_dot_normal < 0 and specular is black when
\* reflect_dot_eye <= 0.
C20_LightingTerms ==
    Returned("Material::lighting") =>
        LET effective_color == ColorMul(args.material.color, args.light.intensity)
            ambient == ColorScale(effective_color, args.material.ambient)
            lightv == normalize(TupleSub(args.light.position, args.point))
            light_dot_normal == dot(lightv, args.normalv)
            reflect_dot_eye == dot(TupleNeg(reflect(lightv, args.normalv)), args.eyev)
            diffuse == ColorScale(ColorScale(effective_color, args.material.diffuse),
                                  light_dot_normal)
            specular == ColorScale(ColorScale(args.light.intensity, args.material.specular),
                                   FPowi(reflect_dot_eye, args.material.shininess))
        IN  IF args.in_shadow THEN ret.val = ambient
            ELSE IF FLt(light_dot_normal, F(0))
                 THEN ret.val = ColorAdd(ColorAdd(ambient, black), black)
            ELSE IF FLe(reflect_dot_eye, F(0))
                 THEN ret.val = ColorAdd(ColorAdd(ambient, diffuse), black)
            ELSE ret.val = ColorAdd(ColorAdd(ambient, diffuse), specular)

\* lighting has returned the ambient term alone for a point in shadow whose
\* light and eye would give a diffuse and a specular term
C20_Witness ==
    /\ Returned("Material::lighting")
    /\ args.in_shadow
    /\ ret.val = ColorScale(args.material.color, args.material.ambient)
    /\ lighting(args.material, args.point, args.light, args.eyev, args.normalv, FALSE)
           = Color(1900, 1900, 1900)

\* ------------------------------------------------------------------------
\* Sphere::intersect: the roots that are recorded
\* ------------------------------------------------------------------------

\* b^2 - 4ac of the ray in the object space of the sphere
Discriminant(s, ray) ==
    LET r == RayTransform(ray, inverse(s.transform).val)
        o == TupleSub(r.origin, point(F(0), F(0), F(0)))
        a == dot(r.direction, r.direction)
        b == FMul(F(2), dot(r.direction, o))
        c == FSub(dot(o, o), F(1))
    IN  FSub(FMul(b, b), FMul(FMul(F(4), a), c))

\* C21: Sphere::intersect returns no intersection when the discriminant is
\* negative and otherwise exactly two intersections t1 <= t2, both recorded
\* even when they are equal and even when one or both are negative, each
\* referring to the intersected sphere.
C21_SphereRecordsBothRoots ==
    (Returned("Shape::intersect") /\ args.shape.kind = "Sphere") =>
        IF FLt(Discriminant(args.shape, args.ray), F(0)) THEN ret.val.intersections = <<>>
        ELSE /\ Len(ret.val.intersections) = 2
             /\ FLe(ret.val.intersections[1].t, ret.val.intersections[2].t)
             /\ \A i \in 1..2 : ret.val.intersections[i].object = args.shape
             /\ (Discriminant(args.shape, args.ray) = F(0)) => ret.val.intersections[1].t = ret.val.intersections[2].t
             /\ (Discriminant(args.shape, args.ray) # F(0)) => ret.val.intersections[1].t # ret.val.intersections[2].t

\* a tangent ray has returned the same t twice
C21_WitnessTangent ==
    /\ Returned("Shape::intersect") /\ args.shape.kind = "Sphere"
    /\ Len(ret.val.intersections) = 2 /\ ret.val.intersections[1].t = F(5) /\ ret.val.intersections[2].t = F(5)

\* ------------------------------------------------------------------------
\* StripePattern::color_at on its own
\* ------------------------------------------------------------------------

\* pattern.color_at(point)
CallStripeColorAt ==
    /\ callee = "StripePattern::color_at" /\ ret = Pending
    /\ ret' = Ok(StripeColorAt(args.pattern, args.point))
    /\ UNCHANGED <<callee, args, renderVars, xsVars>>

\* C22: the stripe pattern returns color_a exactly when floor(x) is even and
\* color_b otherwise, for negative x too (x = -0.1 and x = -1 give color_b,
\* x = -1.1 gives color_a); the result does not depend on y or z.
C22_StripeByFloorOfX ==
    Returned("StripePattern::color_at") =>
        LET x == args.point.x
            even == \E k \in -2..2 : F(2 * k) <= x /\ x < F(2 * k + 1)
        IN  /\ args.pattern.color_a # args.pattern.color_b
            /\ ret.val = (IF even THEN args.pattern.color_a ELSE args.pattern.color_b)
            /\ x \in {-100, F(-1)} => ret.val = args.pattern.color_b
            /\ x = -1100 => ret.val = args.pattern.color_a
            /\ ret.val = StripeColorAt(args.pattern, point(x, F(0), F(0)))

\* color_at has returned color_b at x = -0.1, off the x axis
C22_Witness ==
    /\ Returned("StripePattern::color_at")
    /\ args.point.x = -100 /\ args.point.y = F(2) /\ args.point.z = F(1)
    /\ ret.val = args.pattern.color_b

\* ------------------------------------------------------------------------
\* color.rs: clamp and the byte channels
\* ------------------------------------------------------------------------

\* Color::clamp: f64::max and f64::min return the other operand for a NaN
clamp(c, lower_bound, upper_bound) ==
    LET max(a, b) == IF IsNaN(a) THEN b ELSE IF IsNaN(b) THEN a ELSE IF a > b THEN a ELSE b
        min(a, b) == IF IsNaN(a) THEN b ELSE IF IsNaN(b) THEN a ELSE IF a < b THEN a ELSE b
    IN  Color(min(max(c.red, lower_bound), upper_bound),
              min(max(c.green, lower_bound), upper_bound),
              min(max(c.blue, lower_bound), upper_bound))

\* impl ToRgbA32 for Color: to_rgba32 without the round(), the cast truncating
to_rgba32_truncating(c) ==
    LET clamped == clamp(c, F(0), F(1))
        as_u8(x) == IF IsNaN(x) \/ x < 0 THEN 0 ELSE IF x > F(255) THEN 255 ELSE x \div SCALE
    IN  <<as_u8(FMul(clamped.red, F(255))), as_u8(FMul(clamped.green, F(255))),
          as_u8(FMul(clamped.blue, F(255))), 255>>

\* impl ToRgbA32 for Color: to_rgba32; round() goes half away from zero and
\* the cast to u8 saturates, NaN going to 0
to_rgba32(c) ==
    LET clamped == clamp(c, F(0), F(1))
        round(x) == IF ~IsFinite(x) THEN x
                    ELSE IF x >= 0 THEN F((x + HALF) \div SCALE)
                    ELSE F(-((HALF - x) \div SCALE))
        as_u8(x) == IF IsNaN(x) \/ x < 0 THEN 0 ELSE IF x > F(255) THEN 255 ELSE x \div SCALE
    IN  <<as_u8(round(FMul(clamped.red, F(255)))), as_u8(round(FMul(clamped.green, F(255)))),
          as_u8(round(FMul(clamped.blue, F(255)))), 255>>

\* color.to_rgba32()
CallToRgba32 ==
    /\ callee = "Color::to_rgba32" /\ ret = Pending
    /\ ret' = Ok(to_rgba32(args.color))
    /\ UNCHANGED <<callee, args, renderVars, xsVars>>

\* round(clamp(x, 0, 1) x 255) of a finite channel
ByteOf(x) == IF x <= 0 THEN 0 ELSE IF x >= SCALE THEN 255 ELSE (x * 255 + HALF) \div SCALE

\* C24: for every color, channels below 0 or above 1 included, the byte
\* channels are round(clamp(channel, 0, 1) x 255), values in 0..255: channels
\* above 1 give 255 and channels below 0 give 0, and the alpha byte is 255.
C24_ByteChannelsSaturate ==
    Returned("Color::to_rgba32") =>
        LET ch == <<args.color.red, args.color.green, args.color.blue>>
        IN  /\ Len(ret.val) = 4 /\ ret.val[4] = 255
            /\ \A i \in 1..3 :
                /\ ret.val[i] \in 0..255
                /\ (~IsNaN(ch[i]) /\ ch[i] > F(1)) => ret.val[i] = 255
                /\ (~IsNaN(ch[i]) /\ ch[i] < F(0)) => ret.val[i] = 0
                /\ IsFinite(ch[i]) => ret.val[i] = ByteOf(ch[i])

\* Color::new(1.5, 0.5, -0.5) has given 255, 128, 0, 255
C24_Witness ==
    /\ Returned("Color::to_rgba32")
    /\ args.color = Color(1500, HALF, -500)
    /\ ret.val = <<255, 128, 0, 255>>

\* ------------------------------------------------------------------------
\* canvas.rs, ppm.rs: the PPM text, one character per element
\* ------------------------------------------------------------------------

RECURSIVE Digits(_)
\* format!("{}", n) of an unsigned integer
Digits(n) ==
    LET d == <<"0", "1", "2", "3", "4", "5", "6", "7", "8", "9">>
    IN  IF n < 10 THEN <<d[n + 1]>> ELSE Digits(n \div 10) \o <<d[(n % 10) + 1]>>

\* ToPPM::header
header(canvas) ==
    <<"P", "3", "\n">> \o Digits(canvas.width) \o <<" ">> \o Digits(canvas.height) \o <<"\n">>
        \o <<"2", "5", "5", "\n">>

\* Canvas::pixels_as_rgba32
pixels_as_rgba32(canvas) ==
    [k \in 1..(4 * canvas.width * canvas.height) |->
        to_rgba32(canvas.pixels[(k - 1) \div 4])[((k - 1) % 4) + 1]]

RECURSIVE PixelData(_, _, _, _, _, _)
\* to_ppm: the closure of flat_map on the values from the i-th on, with its
\* captured last_image_row and column_count; limit is the 70 of the code
PixelData(canvas, strings, i, last_image_row, column_count, limit) ==
    IF i >= Len(strings) THEN <<>>
    ELSE LET pixel_string == strings[i + 1]
             current_image_row == i \div (canvas.width * 3)
             row_break == current_image_row # last_image_row
             count1 == IF row_break THEN 0 ELSE column_count
             needed_space == (IF count1 # 0 THEN 1 ELSE 0) + Len(pixel_string)
             wrap == count1 + needed_space > limit
             count2 == IF wrap THEN 0 ELSE count1
             data == (IF row_break THEN <<"\n">> ELSE <<>>)
                        \o (IF wrap THEN <<"\n">> ELSE <<>>)
                        \o (IF count2 # 0 THEN <<" ">> ELSE <<>>)
                        \o pixel_string
             count3 == count2 + (IF count2 # 0 THEN 1 ELSE 0) + Len(pixel_string)
         IN  data \o PixelData(canvas, strings, i + 1,
                               IF row_break THEN current_image_row ELSE last_image_row,
                               count3, limit)

\* the values of to_ppm after .filter(|(i, _)| (i + 1) % 4 != 0): no alpha
RgbStrings(canvas) ==
    LET rgb_colors == pixels_as_rgba32(canvas)
    IN  [k \in 1..(3 * canvas.width * canvas.height) |->
            Digits(rgb_colors[((k - 1) \div 3) * 4 + ((k - 1) % 3) + 1])]

\* to_ppm that lets a line grow to 72 characters
to_ppm_wide(canvas) ==
    header(canvas) \o PixelData(canvas, RgbStrings(canvas), 0, 0, 0, 72) \o <<"\n">>

\* impl ToPPM for Canvas: to_ppm
to_ppm(canvas) ==
    header(canvas) \o PixelData(canvas, RgbStrings(canvas), 0, 0, 0, 70) \o <<"\n">>

\* the canvases that are written out: 0 x 2, 1 x 1, 2 x 3, 5 x 3, 6 x 2, 10 x 2
\* and 12 x 2, filled with one color, with two in turn, or with three
PpmCanvases ==
    LET fills == {<<black>>, <<Color(F(1), 800, 600)>>, <<white, Color(50, HALF, F(1))>>,
                  <<Color(1500, F(0), 50), white, black>>}
        sizes == {<<0, 2>>, <<1, 1>>, <<2, 3>>, <<5, 3>>, <<6, 2>>, <<10, 2>>, <<12, 2>>}
    IN  {[CanvasNew(s[1], s[2]) EXCEPT
             !.pixels = [i \in 0..(s[1] * s[2] - 1) |-> f[(i % Len(f)) + 1]]] :
         s \in sizes, f \in fills}

\* canvas.to_ppm()
CallToPpm ==
    /\ callee = "Canvas::to_ppm" /\ ret = Pending
    /\ ret' = Ok(to_ppm(args.canvas))
    /\ UNCHANGED <<callee, args, renderVars, xsVars>>

RECURSIVE Split(_, _)
\* the pieces of a text between the occurrences of a separator
Split(text, sep) ==
    IF \A k \in 1..Len(text) : text[k] # sep THEN <<text>>
    ELSE LET k == CHOOSE k \in 1..Len(text) :
                     text[k] = sep /\ \A j \in 1..(k - 1) : text[j] # sep
         IN  <<SubSeq(text, 1, k - 1)>> \o Split(SubSeq(text, k + 1, Len(text)), sep)

RECURSIVE Number(_)
\* the number that a string of digits writes, -1 when it is none
Number(s) ==
    LET v(c) == CASE c = "0" -> 0 [] c = "1" -> 1 [] c = "2" -> 2 [] c = "3" -> 3
                  [] c = "4" -> 4 [] c = "5" -> 5 [] c = "6" -> 6 [] c = "7" -> 7
                  [] c = "8" -> 8 [] c = "9" -> 9 [] OTHER -> -1
    IN  IF Len(s) = 0 THEN -1
        ELSE IF Len(s) = 1 THEN v(s[1])
        ELSE LET front == Number(SubSeq(s, 1, Len(s) - 1))
             IN  IF front < 0 \/ v(s[Len(s)]) < 0 THEN -1 ELSE front * 10 + v(s[Len(s)])

\* the lines of the text after the header, the closing line break taken off
BodyLines(text, canvas) ==
    Split(SubSeq(text, Len(header(canvas)) + 1, Len(text) - 1), "\n")

RECURSIVE ValuesOf(_)
\* the values on a sequence of lines, line after line
ValuesOf(lines) ==
    IF Len(lines) = 0 THEN <<>>
    ELSE LET tokens == Split(lines[1], " ")
         IN  [k \in 1..Len(tokens) |-> Number(tokens[k])] \o ValuesOf(Tail(lines))

\* the byte channels of the pixels, row by row, without alpha
ChannelsOf(canvas) ==
    [k \in 1..(3 * canvas.width * canvas.height) |->
        LET c == canvas.pixels[(k - 1) \div 3]
            ch == <<c.red, c.green, c.blue>>
        IN  ByteOf(ch[((k - 1) % 3) + 1])]

\* C23: in the text of to_ppm after the header no line is longer than 70
\* characters, the line breaks and blanks stand between two values (the
\* values read back line by line are the channels of the pixels, none of them
\* cut in two), and the values of each canvas row start on a new line.
C23_PpmLines ==
    Returned("Canvas::to_ppm") =>
        LET canvas == args.canvas
            text == ret.val
            lines == BodyLines(text, canvas)
        IN  /\ SubSeq(text, 1, Len(header(canvas))) = header(canvas)
            /\ text[Len(text)] = "\n"
            /\ \A k \in 1..Len(lines) : Len(lines[k]) <= 70
            /\ canvas.width * canvas.height = 0 => lines = <<(<<>>)>>
            /\ canvas.width * canvas.height > 0 =>
                /\ ValuesOf(lines) = ChannelsOf(canvas)
                /\ \A y \in 1..canvas.height : \E k \in 1..Len(lines) :
                       Len(ValuesOf(SubSeq(lines, 1, k))) = y * canvas.width * 3

\* a row of ten pixels has been written on two lines, the first one of 67
\* characters
C23_Witness ==
    /\ Returned("Canvas::to_ppm")
    /\ args.canvas.width = 10
    /\ Len(BodyLines(ret.val, args.canvas)) = 4
    /\ Len(BodyLines(ret.val, args.canvas)[1]) = 67

\* ------------------------------------------------------------------------
\* Intersection::as_computed on its own
\* ------------------------------------------------------------------------

\* the intersections that are computed: those that a shape with an invertible
\* transform returns for a ray, each together with that ray
ComputedArgs ==
    UNION {LET xs == ShapeIntersect(s, r)
           IN  IF xs.ok
               THEN {[i |-> xs.val.intersections[k], ray |-> r] :
                        k \in 1..Len(xs.val.intersections)}
               ELSE {} : s \in Shapes, r \in ShapeRays}

\* i.as_computed(ray)
CallAsComputed ==
    /\ callee = "Intersection::as_computed" /\ ret = Pending
    /\ ret' = as_computed(args.i, args.ray)
    /\ UNCHANGED <<callee, args, renderVars, xsVars>>

\* C25: as_computed(ray) yields eyev = -ray.direction and point =
\* ray.position(t); inside is true and normalv the negated shape normal
\* exactly when shape normal . eyev < 0, otherwise inside is false and normalv
\* the shape normal; normalv . eyev >= 0 in every computed intersection, and
\* over_point = point + normalv x epsilon.
C25_ComputedFacesTheEye ==
    Returned("Intersection::as_computed") =>
        LET pt == position(args.ray, args.i.t)
            n == normal_at(args.i.object, pt).val
            eyev == TupleNeg(args.ray.direction)
        IN  /\ ret.val.eyev = eyev
            /\ ret.val.point = pt
            /\ ret.val.inside <=> FLt(dot(n, eyev), F(0))
            /\ ret.val.normalv = (IF ret.val.inside THEN TupleNeg(n) ELSE n)
            /\ FGe(dot(ret.val.normalv, ret.val.eyev), F(0))
            /\ ret.val.over_point = TupleAdd(pt, TupleMul(ret.val.normalv, EPSILON))

\* the ray from the centre of the unit sphere has been computed at t = 1:
\* inside, with the normal turned toward the eye
C25_Witness ==
    /\ Returned("Intersection::as_computed")
    /\ args.i.t = F(1) /\ args.ray.origin = point(F(0), F(0), F(0))
    /\ ret.val.inside
    /\ ret.val.normalv = vector(F(0), F(0), F(-1))

\* ------------------------------------------------------------------------
\* matrix.rs: the chained transform builders
\* ------------------------------------------------------------------------

\* Matrix<4>::translate with the product taken the other way round
translate_on_right(m, x, y, z) == MatrixMul(m, translation(x, y, z))

\* Matrix<4>::translate, scale, rotate_x
translate(m, x, y, z) == MatrixMul(translation(x, y, z), m)
scale(m, x, y, z) == MatrixMul(scaling(x, y, z), m)
rotate_x(m, r) == MatrixMul(rotation_x(r), m)

\* the arguments of the chain: the angle of rotate_x, the factors of scale,
\* the offsets of translate, and the point the result is multiplied onto
ChainArgs ==
    [r : {"0", "PI/2", "PI"},
     s : {<<F(5), F(5), F(5)>>, <<F(2), F(1), F(3)>>, <<F(1), F(1), F(1)>>},
     t : {<<F(10), F(5), F(7)>>, <<F(1), F(0), F(0)>>, <<F(0), F(0), F(0)>>},
     p : {point(F(1), F(0), F(1)), point(F(0), F(1), F(0)), vector(F(1), F(2), F(3))}]

\* Matrix::identity().rotate_x(r).scale(..).translate(..)
CallChained ==
    /\ callee = "Matrix::rotate_x.scale.translate" /\ ret = Pending
    /\ ret' = Ok(translate(scale(rotate_x(identity(4), args.r),
                                 args.s[1], args.s[2], args.s[3]),
                           args.t[1], args.t[2], args.t[3]))
    /\ UNCHANGED <<callee, args, renderVars, xsVars>>

\* C26: Matrix::identity().rotate_x(a).scale(..).translate(..) equals
\* translation x scaling x rotation, and multiplied onto a point it gives the
\* point that rotation, then scaling, then translation give one after the
\* other.
C26_ChainAppliesInCallOrder ==
    Returned("Matrix::rotate_x.scale.translate") =>
        LET a == rotation_x(args.r)
            b == scaling(args.s[1], args.s[2], args.s[3])
            c == translation(args.t[1], args.t[2], args.t[3])
        IN  /\ MatrixFuzzyEq(ret.val, MatrixMul(c, MatrixMul(b, a)))
            /\ MatrixMulTuple(ret.val, args.p)
                   = MatrixMulTuple(c, MatrixMulTuple(b, MatrixMulTuple(a, args.p)))

\* the chain of the quarter turn, the scaling by 5 and the translation by
\* (10, 5, 7) has been built; it takes (1, 0, 1) to (15, 0, 7)
C26_Witness ==
    /\ Returned("Matrix::rotate_x.scale.translate")
    /\ args.r = "PI/2" /\ args.s = <<F(5), F(5), F(5)>> /\ args.t = <<F(10), F(5), F(7)>>
    /\ MatrixMulTuple(ret.val, point(F(1), F(0), F(1))) = point(F(15), F(0), F(7))

\* ------------------------------------------------------------------------
\* Canvas::write_pixel on its own
\* ------------------------------------------------------------------------

\* the arguments of write_pixel: a canvas of 2 x 2 or 3 x 2 pixels, black or
\* with one pixel written, and x and y within the canvas and beyond it
WritePixelArgs ==
    [canvas : {CanvasNew(2, 2), CanvasNew(3, 2),
               write_pixel(CanvasNew(2, 2), 1, 1, Color(F(1), F(0), F(0))).val},
     x : 0..4, y : 0..2, c : {white, Color(F(0), HALF, F(0))}]

\* canvas.write_pixel(x, y, c)
CallWritePixel ==
    /\ callee = "Canvas::write_pixel" /\ ret = Pending
    /\ ret' = write_pixel(args.canvas, args.x, args.y, args.c)
    /\ UNCHANGED <<callee, args, renderVars, xsVars>>

\* C27: write_pixel(x, y, c) either aborts or changes exactly the pixel at
\* column x of row y, after which pixel_at(x, y) returns c; for no arguments,
\* x >= width or y >= height included, does it change the color of a pixel at
\* other coordinates.
C27_WritePixelFrame ==
    Returned("Canvas::write_pixel") =>
        /\ pixel_at(ret.val, args.x, args.y) = Ok(args.c)
        /\ \A x \in 0..(args.canvas.width - 1) : \A y \in 0..(args.canvas.height - 1) :
               <<x, y>> # <<args.x, args.y>> =>
                   pixel_at(ret.val, x, y) = pixel_at(args.canvas, x, y)

\* ------------------------------------------------------------------------
\* coincident surfaces
\* ------------------------------------------------------------------------

\* the place of a shape in world.objects
PlaceOf(o) == CHOOSE k \in 1..Len(world.objects) :
                  world.objects[k] = o /\ \A j \in 1..(k - 1) : world.objects[j] # o

\* the first shape of world.objects with an intersection at the smallest
\* positive t of the ray
FirstAtHit(ray) ==
    LET all == AllOf(world, ray)
        at == {PlaceOf(all[i].object) : i \in {i \in DOMAIN all : SmallestPositive(all, i)}}
    IN  world.objects[CHOOSE k \in at : \A j \in at : k <= j]

\* C28: when several intersections share the smallest positive t, hit()
\* returns the one that came first in the input; for World::intersect equal t
\* stay in the order of world.objects, and color_at shades coincident
\* surfaces with the material of the shape that comes first in world.objects.
C28_EarlierShapeWinsTies ==
    /\ Returned("intersect") =>
           LET xs == ret.val.intersections
           IN  \A i \in DOMAIN xs : \A j \in DOMAIN xs :
                   (i < j /\ xs[i].t = xs[j].t) =>
                       PlaceOf(xs[i].object) <= PlaceOf(xs[j].object)
    /\ (Returned("color_at") /\ PositiveAt(AllOf(world, args.ray)) # {}) =>
           LET xs == WorldIntersect(world, args.ray).val
               first == FirstAtHit(args.ray)
           IN  /\ hit(xs).val.object = first
               /\ \E i \in DOMAIN AllOf(world, args.ray) :
                      /\ SmallestPositive(AllOf(world, args.ray), i)
                      /\ ret = shade_hit(world,
                                   as_computed(Intersection(AllOf(world, args.ray)[i].t, first),
                                               args.ray).val)

\* color_at has shaded two coincident spheres with the material of the first
\* one, which gives another color than that of the second
C28_Witness ==
    /\ Returned("color_at")
    /\ world \in CoincidentWorlds
    /\ args.ray = RayTowardsZ
    /\ ret = shade_hit(world, as_computed(Intersection(F(4), world.objects[1]), args.ray).val)
    /\ ret # shade_hit(world, as_computed(Intersection(F(4), world.objects[2]), args.ray).val)

\* ------------------------------------------------------------------------
\* the matrix product for every size
\* ------------------------------------------------------------------------

\* impl Mul<Self> for Matrix<D>: mul for Matrix<2>, Matrix<3> and Matrix<4>;
\* every entry reads self[row][0..=3] and other[0..=3][column], and an index
\* of 2 or 3 into an array of D < 4 elements panics at the first entry
mul(a, b) == IF Dim(a) < 4 THEN Panic ELSE Ok(MatrixMul(a, b))

\* the factors of the products: two matrices of the same size, 2, 3 or 4
MulArgs ==
    LET m2 == {identity(2), << <<F(1), F(2)>>, <<F(3), F(4)>> >>,
               << <<F(0), F(-1)>>, <<HALF, F(2)>> >>}
        m3 == {identity(3), << <<F(1), F(2), F(3)>>, <<F(4), F(5), F(6)>>, <<F(7), F(8), F(9)>> >>,
               << <<F(0), F(1), F(0)>>, <<F(-1), F(0), F(2)>>, <<HALF, F(0), F(1)>> >>}
        m4 == {identity(4), translation(F(1), F(2), F(3)), scaling(F(2), F(3), F(4)),
               rotation_x("PI/2"),
               << <<F(1), F(2), F(3), F(4)>>, <<F(5), F(6), F(7), F(8)>>,
                  <<F(9), F(8), F(7), F(6)>>, <<F(5), F(4), F(3), F(2)>> >>}
    IN  UNION {{[a |-> a, b |-> b] : a \in s, b \in s} : s \in {m2, m3, m4}}

\* a * b
CallMul ==
    /\ callee = "Matrix::mul" /\ ret = Pending
    /\ ret' = mul(args.a, args.b)
    /\ UNCHANGED <<callee, args, renderVars, xsVars>>

RECURSIVE RowByColumn(_, _, _, _, _)
\* the sum over k < n of a[row][k] x b[k][column]
RowByColumn(a, b, row, column, n) ==
    IF n = 1 THEN FMul(At(a, row, 0), At(b, 0, column))
    ELSE FAdd(RowByColumn(a, b, row, column, n - 1),
              FMul(At(a, row, n - 1), At(b, n - 1, column)))

\* C30: the product of two Matrix<D> is the standard product, entry (r, c)
\* the sum over k < D of A[r][k] x B[k][c], for D = 2, 3 and 4 alike; no index
\* of D or more is read.
C30_ProductForEverySize ==
    (callee = "Matrix::mul" /\ ret # Pending) =>
        /\ ret.ok
        /\ Dim(ret.val) = Dim(args.a)
        /\ \A row \in 0..(Dim(args.a) - 1) : \A column \in 0..(Dim(args.a) - 1) :
               At(ret.val, row, column) = RowByColumn(args.a, args.b, row, column, Dim(args.a))

\* ------------------------------------------------------------------------
\* the single calls together
\* ------------------------------------------------------------------------

\* a caller is about to make one call: a query of a world, Ray::new,
\* is_invertible(), inverse(), a product or a chain of builders on matrices,
\* intersect or normal_at on a shape, as_computed on an intersection, lighting
\* on a material, color_at on a stripe pattern, to_rgba32 on a color, or
\* write_pixel or to_ppm on a canvas
InitCall ==
    /\ OnlyCall
    /\ ret = Pending
    /\ \/ /\ world \in QueryWorlds
          /\ \/ /\ callee \in {"intersect", "color_at"}
                /\ args \in {[ray |-> r] : r \in WorldRays}
             \/ /\ callee = "is_shadowed"
                /\ args \in {[point |-> p] : p \in WorldPoints(world)}
       \/ /\ world = DefaultWorld
          /\ \/ /\ callee = "Ray::new"
                /\ args \in {[origin |-> o, direction |-> d] :
                                o \in RayTuples, d \in RayTuples}
             \/ /\ callee \in {"is_invertible", "inverse"}
                /\ args \in {[m |-> m] : m \in Matrices}
             \/ /\ callee = "Shape::intersect"
                /\ args \in {[shape |-> s, ray |-> r] : s \in Shapes, r \in ShapeRays}
             \/ /\ callee = "Shape::normal_at"
                /\ args \in {[shape |-> s, point |-> p] : s \in Shapes, p \in ShapePoints}
             \/ /\ callee = "Material::lighting"
                /\ args \in LightingArgs
             \/ /\ callee = "Color::to_rgba32"
                /\ LET channels == {-6700, -500, F(0), 1, 2, HALF, 600, 800, F(1), 1500, 2300,
                                    NaN, Inf, NegInf}
                   IN  args \in {[color |-> Color(r, g, b)] :
                                    r \in channels, g \in channels, b \in channels}
             \/ /\ callee = "Canvas::to_ppm"
                /\ args \in {[canvas |-> c] : c \in PpmCanvases}
             \/ /\ callee = "Intersection::as_computed"
                /\ args \in ComputedArgs
             \/ /\ callee = "Matrix::rotate_x.scale.translate"
                /\ args \in ChainArgs
             \/ /\ callee = "Canvas::write_pixel"
                /\ args \in WritePixelArgs
             \/ /\ callee = "Matrix::mul"
                /\ args \in MulArgs
             \/ /\ callee = "StripePattern::color_at"
                /\ args \in [pattern : {StripePattern(identity(4), white, black),
                                        StripePattern(scaling(F(2), F(2), F(2)), black,
                                                      Color(F(1), F(0), F(0)))},
                             point : {point(x, y, z) :
                                        x \in {F(0), 900, F(1), 1100, F(2), 2500, F(3),
                                               -100, F(-1), -1100, F(-2), -2500},
                                        y \in {F(0), F(1), F(2)}, z \in {F(0), F(1), F(2)}}]

NextCall ==
    \/ CallIntersect
    \/ CallColorAt
    \/ CallIsShadowed
    \/ CallRayNew
    \/ CallIsInvertible
    \/ CallInverse
    \/ CallShapeIntersect
    \/ CallNormalAt
    \/ CallLighting
    \/ CallStripeColorAt
    \/ CallToRgba32
    \/ CallToPpm
    \/ CallAsComputed
    \/ CallChained
    \/ CallWritePixel
    \/ CallMul

SpecCall == InitCall /\ [][NextCall]_vars

=============================================================================
